---- MODULE Spec2Model ----
(***************************************************************************)
(* A model of potato-registry's authentication and SSO-provisioning core:  *)
(* the CSRF state store and the OIDC metadata cache of core/sso.py, the    *)
(* /sso/login and /sso/callback handlers and provision_sso_user of         *)
(* routes/sso.py, and the user administration routes of routes/users.py    *)
(* that build the account store provisioning works on.                     *)
(*                                                                         *)
(* A handler is an asyncio coroutine: it runs without interruption from    *)
(* one await that really suspends (a network call, a database call) to the *)
(* next.  req[r].pc is the await a request is suspended at.  A call of     *)
(* get_oidc_metadata that hits the cache does not suspend.                 *)
(*                                                                         *)
(* Specifications:                                                         *)
(*   SpecState  login and callback requests running concurrently against   *)
(*              STATE_CACHE and OIDC_METADATA_CACHE, with an identity      *)
(*              provider whose token endpoint accepts no code (the         *)
(*              callback ends at the token exchange).                      *)
(*   SpecProv   provision_sso_user called on account stores built by the   *)
(*              user routes, one call at a time.                           *)
(***************************************************************************)
EXTENDS Integers, Sequences, FiniteSets, TLC

VARIABLES
    now,                  \* int(time.time()): the clock, in seconds
    settings,             \* core/config.py: the configuration, fixed at start-up
    OIDC_METADATA_CACHE,  \* core/sso.py:14, issuer url -> {data, expires_at}
    STATE_CACHE,          \* core/sso.py:84, state secret -> expiry timestamp
    issued,               \* how many state secrets secrets.token_urlsafe has drawn
    presented,            \* observation: the issued secrets a callback has presented
    req,                  \* the requests in flight, each at its await
    resp,                 \* observation: the last HTTP response sent
    users,                \* the users table, id -> row
    next_id,              \* the next value of the users.id sequence
    call,                 \* observation: the last provision_sso_user call
    JWKS_CACHE,           \* core/sso.py:103, key id -> {key, expires_at}
    tokens,               \* the session tokens issued so far, held by callers
    auth                  \* observation: the last request resolved to an identity

vars == <<now, settings, OIDC_METADATA_CACHE, STATE_CACHE, issued, presented,
          req, resp, users, next_id, call, JWKS_CACHE, tokens, auth>>

-----------------------------------------------------------------------------
(* Bounds of the model *)

NumReqs == 2      \* requests that can be in flight together
MaxTokens == 2    \* state secrets drawn in one behaviour
MaxUsers == 2     \* rows of the users table

(* Program constants *)

CACHE_TTL_SECONDS == 3600
STATE_TTL_SECONDS == 300

NULL == "NULL"    \* Python's None / SQL NULL in a string-valued field

Reqs == 1 .. NumReqs
Tokens == 1 .. MaxTokens     \* the n-th secret drawn is n: each draw is fresh

(* The clock readings the CSRF flows distinguish: a secret issued at 0 or 1
   is read just before, at and just after its expiry, and a callback arrives
   just before and at the expiry of metadata fetched at 0. *)
StateInstants ==
    {0, 1, STATE_TTL_SECONDS - 1, STATE_TTL_SECONDS, STATE_TTL_SECONDS + 1,
     CACHE_TTL_SECONDS - 1, CACHE_TTL_SECONDS}

-----------------------------------------------------------------------------
(* Python dicts as functions with a growing and shrinking domain *)

EmptyDict == [k \in {} |-> 0]

DictSet(d, key, value) ==
    [k \in DOMAIN d \cup {key} |-> IF k = key THEN value ELSE d[k]]

DictDel(d, key) == [k \in DOMAIN d \ {key} |-> d[k]]

-----------------------------------------------------------------------------
(* HTTP responses *)

Response(r, handler, status, detail) ==
    [req |-> r, handler |-> handler, status |-> status, detail |-> detail,
     state |-> 0]

StateResponse(r, status, detail, s) ==
    [req |-> r, handler |-> "sso_callback", status |-> status,
     detail |-> detail, state |-> s]

NoResponse == Response(0, "none", 0, "")

Idle == [pc |-> "idle", ct |-> 0, state |-> 0]

(* No provision_sso_user call is on record *)
NoCall == [username |-> NULL, email |-> NULL, status |-> 0, detail |-> "",
           id |-> 0, pre |-> EmptyDict, repeat |-> FALSE]

\* No request has been resolved to an identity yet.
NoAuth == [policy |-> NULL]

-----------------------------------------------------------------------------
(* core/sso.py: the OIDC metadata cache *)

IssuerUrls == {"https://idp"}

Endpoints == {"authorization_endpoint", "token_endpoint", "jwks_uri"}

(* What the discovery URL can answer.  A document is the set of its keys. *)
DiscoveryResponses ==
    {[kind |-> "network_error", keys |-> {}],
     [kind |-> "http_error", keys |-> {}],
     [kind |-> "invalid_json", keys |-> {}],
     [kind |-> "document", keys |-> Endpoints],
     [kind |-> "document", keys |-> Endpoints \ {"jwks_uri"}]}

(* A cache check that takes an entry at its expiry time for valid *)
metadata_cached_at_expiry(cache, issuer_url, current_time) ==
    /\ issuer_url \in DOMAIN cache
    /\ cache[issuer_url].expires_at >= current_time

(* get_oidc_metadata, lines 33-38: the cache holds an unexpired entry *)
metadata_cached(cache, issuer_url, current_time) ==
    /\ issuer_url \in DOMAIN cache
    /\ cache[issuer_url].expires_at > current_time

(* A fetch that drops the entry of the issuer when it fails *)
metadata_fetched_drops_entry(cache, issuer_url, current_time, d) ==
    IF d.kind = "network_error"
    THEN [cache |-> DictDel(cache, issuer_url), status |-> 503,
          detail |-> "Échec de la connexion à l'émetteur OIDC"]
    ELSE IF d.kind # "document" \/ ~(Endpoints \subseteq d.keys)
    THEN [cache |-> DictDel(cache, issuer_url), status |-> 500,
          detail |-> "Erreur lors du traitement des métadonnées OIDC"]
    ELSE [cache |-> DictSet(cache, issuer_url,
                            [data |-> d.keys,
                             expires_at |-> current_time + CACHE_TTL_SECONDS]),
          status |-> 200, detail |-> ""]

(* get_oidc_metadata, lines 43-79: the fetch has answered d; current_time
   was read before the fetch was sent *)
metadata_fetched(cache, issuer_url, current_time, d) ==
    IF d.kind = "network_error"
    THEN [cache |-> cache, status |-> 503,
          detail |-> "Échec de la connexion à l'émetteur OIDC"]
    ELSE IF d.kind # "document" \/ ~(Endpoints \subseteq d.keys)
    THEN [cache |-> cache, status |-> 500,
          detail |-> "Erreur lors du traitement des métadonnées OIDC"]
    ELSE [cache |-> DictSet(cache, issuer_url,
                            [data |-> d.keys,
                             expires_at |-> current_time + CACHE_TTL_SECONDS]),
          status |-> 200, detail |-> ""]

-----------------------------------------------------------------------------
(* core/sso.py: the CSRF state store *)

InvalidState == "State OIDC invalide ou manquant."
ExpiredState == "State OIDC expiré."

(* A check_and_clear_state that deletes the secret only when it is valid *)
check_and_clear_state_keeps_expired(cache, state, current_time) ==
    IF state \notin DOMAIN cache
    THEN [cache |-> cache, status |-> 400, detail |-> InvalidState]
    ELSE IF cache[state] < current_time
    THEN [cache |-> cache, status |-> 400, detail |-> ExpiredState]
    ELSE [cache |-> DictDel(cache, state), status |-> 200, detail |-> ""]

(* A check_and_clear_state that deletes the secret only when it has expired *)
check_and_clear_state_keeps_valid(cache, state, current_time) ==
    IF state \notin DOMAIN cache
    THEN [cache |-> cache, status |-> 400, detail |-> InvalidState]
    ELSE IF cache[state] < current_time
    THEN [cache |-> DictDel(cache, state), status |-> 400,
          detail |-> ExpiredState]
    ELSE [cache |-> cache, status |-> 200, detail |-> ""]

(* check_and_clear_state: the cache after the call and what the call raised
   (status 200: it returned) *)
check_and_clear_state(cache, state, current_time) ==
    IF state \notin DOMAIN cache
    THEN [cache |-> cache, status |-> 400, detail |-> InvalidState]
    ELSE IF cache[state] < current_time
    THEN [cache |-> DictDel(cache, state), status |-> 400,
          detail |-> ExpiredState]
    ELSE [cache |-> DictDel(cache, state), status |-> 200, detail |-> ""]

-----------------------------------------------------------------------------
(* routes/sso.py: /sso/login *)

LoginsInFlight == {q \in Reqs : req[q].pc = "login_fetch"}

(* lines 39-52: draw a state secret, store it, redirect to the provider *)
IssueState(r) ==
    /\ issued' = issued + 1
    /\ STATE_CACHE' = DictSet(STATE_CACHE, issued + 1, now + STATE_TTL_SECONDS)
    /\ resp' = [Response(r, "sso_login", 307, "") EXCEPT !.state = issued + 1]

(* lines 29-33, up to the discovery fetch when the cache misses *)
sso_login(r) ==
    /\ req[r].pc = "idle"
    /\ issued + Cardinality(LoginsInFlight) < MaxTokens
    /\ IF ~settings.oidc_enabled \/ settings.issuer_url = NULL
       THEN /\ resp' = Response(r, "sso_login", 503, "SSO non configuré.")
            /\ UNCHANGED <<req, issued, STATE_CACHE>>
       ELSE IF metadata_cached(OIDC_METADATA_CACHE, settings.issuer_url, now)
       THEN /\ IssueState(r)
            /\ UNCHANGED req
       ELSE /\ req' = [req EXCEPT ![r] = [Idle EXCEPT !.pc = "login_fetch",
                                                      !.ct = now]]
            /\ UNCHANGED <<resp, issued, STATE_CACHE>>
    /\ UNCHANGED <<now, settings, OIDC_METADATA_CACHE, presented, users,
                   next_id, call,
                   JWKS_CACHE, tokens, auth>>

(* the discovery fetch of a login answers d; lines 46-66 then 34-52 *)
login_fetched(r, d) ==
    /\ req[r].pc = "login_fetch"
    /\ LET m == metadata_fetched(OIDC_METADATA_CACHE, settings.issuer_url,
                                 req[r].ct, d)
       IN  /\ OIDC_METADATA_CACHE' = m.cache
           /\ IF m.status = 200
              THEN IssueState(r)
              ELSE /\ resp' = Response(r, "sso_login", m.status, m.detail)
                   /\ UNCHANGED <<issued, STATE_CACHE>>
    /\ req' = [req EXCEPT ![r] = Idle]
    /\ UNCHANGED <<now, settings, presented, users, next_id, call,
                   JWKS_CACHE, tokens, auth>>

-----------------------------------------------------------------------------
(* routes/sso.py: /sso/callback, up to the token exchange *)

(* What the token endpoint answers to a code it does not accept *)
TokenErrors == {"network_error", "status_error", "no_id_token"}

(* lines 59-64: the state check, then get_oidc_metadata up to its fetch.
   state is whatever the caller sends. *)
sso_callback(r, state) ==
    /\ req[r].pc = "idle"
    /\ LET c == check_and_clear_state(STATE_CACHE, state, now)
       IN  /\ STATE_CACHE' = c.cache
           /\ presented' = IF state <= issued THEN presented \cup {state}
                           ELSE presented
           /\ IF c.status # 200
              THEN /\ resp' = StateResponse(r, c.status, c.detail, state)
                   /\ UNCHANGED req
              ELSE IF settings.issuer_url = NULL
              THEN /\ resp' = StateResponse(r, 503,
                                   "URL d'émetteur OIDC non configurée.", state)
                   /\ UNCHANGED req
              ELSE IF metadata_cached(OIDC_METADATA_CACHE,
                                      settings.issuer_url, now)
              THEN /\ req' = [req EXCEPT ![r] =
                                [Idle EXCEPT !.pc = "cb_exchange",
                                             !.state = state]]
                   /\ UNCHANGED resp
              ELSE /\ req' = [req EXCEPT ![r] =
                                [Idle EXCEPT !.pc = "cb_fetch", !.ct = now,
                                             !.state = state]]
                   /\ UNCHANGED resp
    /\ UNCHANGED <<now, settings, OIDC_METADATA_CACHE, issued, users, next_id,
                   call,
                   JWKS_CACHE, tokens, auth>>

(* the discovery fetch of a callback answers d; lines 46-66 then 65-77 *)
callback_fetched(r, d) ==
    /\ req[r].pc = "cb_fetch"
    /\ LET m == metadata_fetched(OIDC_METADATA_CACHE, settings.issuer_url,
                                 req[r].ct, d)
       IN  /\ OIDC_METADATA_CACHE' = m.cache
           /\ IF m.status = 200
              THEN /\ req' = [req EXCEPT ![r].pc = "cb_exchange"]
                   /\ UNCHANGED resp
              ELSE /\ req' = [req EXCEPT ![r] = Idle]
                   /\ resp' = StateResponse(r, m.status, m.detail,
                                            req[r].state)
    /\ UNCHANGED <<now, settings, STATE_CACHE, issued, presented, users,
                   next_id, call,
                   JWKS_CACHE, tokens, auth>>

(* lines 77-88: the token endpoint answers t, which carries no id_token.
   httpx.RequestError is caught nowhere in the handler: the framework
   answers 500. *)
callback_exchange_failed(r, t) ==
    /\ req[r].pc = "cb_exchange"
    /\ t \in TokenErrors
    /\ req' = [req EXCEPT ![r] = Idle]
    /\ resp' = StateResponse(r, 500,
                   CASE t = "network_error" -> "Internal Server Error"
                     [] t = "status_error" ->
                            "Échec de l'échange de tokens avec l'IdP."
                     [] t = "no_id_token" -> "ID Token manquant.",
                   req[r].state)
    /\ UNCHANGED <<now, settings, OIDC_METADATA_CACHE, STATE_CACHE, issued,
                   presented, users, next_id, call,
                   JWKS_CACHE, tokens, auth>>

-----------------------------------------------------------------------------
(* The clock *)

Tick(instants) ==
    /\ \E t \in instants : t > now /\ now' = t
    /\ UNCHANGED <<settings, OIDC_METADATA_CACHE, STATE_CACHE, issued,
                   presented, req, resp, users, next_id, call,
                   JWKS_CACHE, tokens, auth>>

-----------------------------------------------------------------------------
(* SpecState *)

InitState ==
    /\ now = 0
    /\ settings \in [oidc_enabled : BOOLEAN,
                     issuer_url : IssuerUrls \cup {NULL},
                     allow_account_linking : {FALSE}]
    /\ OIDC_METADATA_CACHE = EmptyDict
    /\ STATE_CACHE = EmptyDict
    /\ issued = 0
    /\ presented = {}
    /\ req = [r \in Reqs |-> Idle]
    /\ resp = NoResponse
    /\ users = EmptyDict
    /\ next_id = 1
    /\ call = NoCall
    /\ JWKS_CACHE = EmptyDict
    /\ tokens = {}
    /\ auth = NoAuth

NextState ==
    \/ Tick(StateInstants)
    \/ \E r \in Reqs : sso_login(r)
    \/ \E r \in Reqs, d \in DiscoveryResponses : login_fetched(r, d)
    \/ \E r \in Reqs, s \in Tokens : sso_callback(r, s)
    \/ \E r \in Reqs, d \in DiscoveryResponses : callback_fetched(r, d)
    \/ \E r \in Reqs, t \in TokenErrors : callback_exchange_failed(r, t)

SpecState == InitState /\ [][NextState]_vars

-----------------------------------------------------------------------------
(* models.py: the users table.  A row is the account of the design: id,
   username (unique), email (nullable, not unique), hashed_password
   (nullable) and the four flags.  The tracking columns created_at,
   modified_at and last_login_at and the roles relation are not part of it. *)

Usernames == {"alice", "bob", "robert"}
Emails == {"a@x.com", "bob@x.com"}
Passwords == {"pw"}

(* core/security.py: get_password_hash, as the hash that verifies exactly
   the plaintext it was made from *)
get_password_hash(password) == "argon2$" \o password

Row(username, email, hashed_password, is_service_account, is_sso_managed) ==
    [username |-> username, email |-> email,
     hashed_password |-> hashed_password,
     is_active |-> TRUE, is_superuser |-> FALSE,
     is_service_account |-> is_service_account,
     is_sso_managed |-> is_sso_managed]

(* User.get_or_none(username=...), User.get_or_none(email=...): the ids of
   the matching rows.  get_or_none returns None for no row, the row for one,
   and raises MultipleObjectsReturned for more. *)
by_username(tbl, username) == {i \in DOMAIN tbl : tbl[i].username = username}

by_email(tbl, email) == {i \in DOMAIN tbl : tbl[i].email = email}

TheOne(S) == CHOOSE i \in S : TRUE

-----------------------------------------------------------------------------
(* routes/users.py: the routes that build and change the users table *)

(* create_user: the unique index on username refuses a second row *)
create_user(username, password, email, is_service_account) ==
    /\ \A r \in Reqs : req[r].pc = "idle"
    /\ IF by_username(users, username) # {}
       THEN /\ resp' = Response(0, "create_user", 400,
                                "Cet utilisateur existe déjà.")
            /\ UNCHANGED <<users, next_id>>
       ELSE /\ Cardinality(DOMAIN users) < MaxUsers
            /\ users' = DictSet(users, next_id,
                                Row(username, email,
                                    get_password_hash(password),
                                    is_service_account, FALSE))
            /\ next_id' = next_id + 1
            /\ resp' = Response(0, "create_user", 201, "")
    /\ call' = NoCall
    /\ auth' = NoAuth
    /\ UNCHANGED <<now, settings, OIDC_METADATA_CACHE, STATE_CACHE, issued,
                   presented, req, JWKS_CACHE, tokens>>

(* update_user: user_in holds the fields the caller provided *)
update_user(user_id, user_in) ==
    /\ \A r \in Reqs : req[r].pc = "idle"
    /\ IF user_id \notin DOMAIN users
       THEN /\ resp' = Response(0, "update_user", 404,
                                "Utilisateur introuvable")
            /\ UNCHANGED users
       ELSE /\ users' = [users EXCEPT ![user_id] =
                  [@ EXCEPT
                     !.email = IF "email" \in DOMAIN user_in
                               THEN user_in.email ELSE @,
                     !.is_active = IF "is_active" \in DOMAIN user_in
                                   THEN user_in.is_active ELSE @,
                     !.hashed_password =
                         IF "password" \in DOMAIN user_in
                         THEN get_password_hash(user_in.password) ELSE @,
                     !.is_superuser = IF "is_superuser" \in DOMAIN user_in
                                      THEN user_in.is_superuser ELSE @]]
            /\ resp' = Response(0, "update_user", 200, "")
    /\ call' = NoCall
    /\ auth' = NoAuth
    /\ UNCHANGED <<now, settings, OIDC_METADATA_CACHE, STATE_CACHE, issued,
                   presented, req, next_id, JWKS_CACHE, tokens>>

-----------------------------------------------------------------------------
(* routes/sso.py: provision_sso_user, run from its first lookup to its
   return with no other request in between.  The result is the table and the
   id sequence after the call, and what the call returned (status 200 and
   the id of the row) or raised (403; 500 for an exception no handler
   catches). *)

LocalUserExists == "Un utilisateur local existe déjà avec ce nom d'utilisateur."
LinkingDisabled == "Compte local existant trouvé, liaison désactivée."

Raised(tbl, seq, status, detail) ==
    [users |-> tbl, next_id |-> seq, status |-> status, detail |-> detail,
     id |-> 0]

Returned(tbl, seq, id) ==
    [users |-> tbl, next_id |-> seq, status |-> 200, detail |-> "", id |-> id]

(* lines 149-160, with the 403 of line 150 left out *)
existing_user_never_rejected(tbl, seq, u, email, allow_account_linking) ==
    Returned([tbl EXCEPT ![u].is_sso_managed = TRUE, ![u].email = email],
             seq, u)

(* lines 149-160, with the assignment of line 158 left out *)
existing_user_keeps_email(tbl, seq, u, email, allow_account_linking) ==
    IF ~tbl[u].is_sso_managed /\ ~allow_account_linking
    THEN Raised(tbl, seq, 403, LocalUserExists)
    ELSE Returned([tbl EXCEPT ![u].is_sso_managed = TRUE], seq, u)

(* lines 149-160: row u has the claimed username *)
existing_user(tbl, seq, u, email, allow_account_linking) ==
    IF ~tbl[u].is_sso_managed /\ ~allow_account_linking
    THEN Raised(tbl, seq, 403, LocalUserExists)
    ELSE Returned([tbl EXCEPT ![u].is_sso_managed = TRUE,
                              ![u].email = email], seq, u)

(* lines 168-184: no row has the claimed username, row e the claimed email *)
link_by_email(tbl, seq, e, username, allow_account_linking) ==
    IF allow_account_linking
    THEN Returned([tbl EXCEPT ![e].username = username,
                              ![e].is_sso_managed = TRUE], seq, e)
    ELSE Raised(tbl, seq, 403, LinkingDisabled)

(* lines 187-192, with is_sso_managed left to its default *)
create_sso_user_unmanaged(tbl, seq, username, email) ==
    Returned(DictSet(tbl, seq, Row(username, email, NULL, FALSE, FALSE)),
             seq + 1, seq)

(* lines 187-192: User.create with the fields given and the defaults of
   models.py for the others *)
create_sso_user(tbl, seq, username, email) ==
    Returned(DictSet(tbl, seq, Row(username, email, NULL, FALSE, TRUE)),
             seq + 1, seq)

(* provision_sso_user with the lookup by email made before the lookup by
   username *)
provision_sso_user_email_first(tbl, seq, username, email, linking) ==
    LET named == by_username(tbl, username)
        mailed == by_email(tbl, email)
    IN  IF Cardinality(mailed) > 1
        THEN Raised(tbl, seq, 500, "MultipleObjectsReturned")
        ELSE IF mailed # {}
        THEN link_by_email(tbl, seq, TheOne(mailed), username, linking)
        ELSE IF named # {}
        THEN existing_user(tbl, seq, TheOne(named), email, linking)
        ELSE create_sso_user(tbl, seq, username, email)

(* provision_sso_user with no lookup at all *)
provision_sso_user_always_creates(tbl, seq, username, email, linking) ==
    create_sso_user(tbl, seq, username, email)

provision_sso_user(tbl, seq, username, email, allow_account_linking) ==
    LET named == by_username(tbl, username)
        mailed == by_email(tbl, email)
    IN  IF Cardinality(named) > 1
        THEN Raised(tbl, seq, 500, "MultipleObjectsReturned")
        ELSE IF named # {}
        THEN existing_user(tbl, seq, TheOne(named), email,
                           allow_account_linking)
        ELSE IF Cardinality(mailed) > 1
        THEN Raised(tbl, seq, 500, "MultipleObjectsReturned")
        ELSE IF mailed # {}
        THEN link_by_email(tbl, seq, TheOne(mailed), username,
                           allow_account_linking)
        ELSE create_sso_user(tbl, seq, username, email)

(* One call of provision_sso_user.  call records its arguments, the table
   before it and its result; repeat says that it repeats the arguments of
   the call before it, which had found an SSO-managed account of that
   username and had returned. *)
Provision(username, email) ==
    /\ \A r \in Reqs : req[r].pc = "idle"
    /\ LET p == provision_sso_user(users, next_id, username, email,
                                   settings.allow_account_linking)
       IN  /\ Cardinality(DOMAIN p.users) <= MaxUsers
           /\ users' = p.users
           /\ next_id' = p.next_id
           /\ call' = [username |-> username, email |-> email,
                       status |-> p.status, detail |-> p.detail, id |-> p.id,
                       pre |-> users,
                       repeat |->
                           /\ call.status = 200
                           /\ call.username = username
                           /\ call.email = email
                           /\ \E i \in by_username(call.pre, username) :
                                  call.pre[i].is_sso_managed]
    /\ auth' = NoAuth
    /\ UNCHANGED <<now, settings, OIDC_METADATA_CACHE, STATE_CACHE, issued,
                   presented, req, resp, JWKS_CACHE, tokens>>

-----------------------------------------------------------------------------
(* SpecProv *)

(* The updates the administrator makes in SpecProv: deactivate and promote *)
ProvUpdates == {[is_active |-> FALSE, is_superuser |-> TRUE]}

InitProv ==
    /\ now = 0
    /\ settings \in [oidc_enabled : {TRUE}, issuer_url : IssuerUrls,
                     allow_account_linking : BOOLEAN]
    /\ OIDC_METADATA_CACHE = EmptyDict
    /\ STATE_CACHE = EmptyDict
    /\ issued = 0
    /\ presented = {}
    /\ req = [r \in Reqs |-> Idle]
    /\ resp = NoResponse
    /\ users = EmptyDict
    /\ next_id = 1
    /\ call = NoCall
    /\ JWKS_CACHE = EmptyDict
    /\ tokens = {}
    /\ auth = NoAuth

NextProv ==
    \/ \E u \in Usernames, p \in Passwords, e \in Emails :
           create_user(u, p, e, FALSE)
    \/ \E i \in 1 .. MaxUsers, x \in ProvUpdates : update_user(i, x)
    \/ \E u \in Usernames, e \in Emails : Provision(u, e)

SpecProv == InitProv /\ [][NextProv]_vars

-----------------------------------------------------------------------------
(* Claims on the CSRF state store, under SpecState *)

InFlightCallbacks == {r \in Reqs : req[r].pc \in {"cb_fetch", "cb_exchange"}}

RejectedAs(r, state, detail) ==
    /\ resp = StateResponse(r, 400, detail, state)
    /\ req[r].pc = "idle"

(* C1: a state secret is single-use.  Once an issued secret has been
   presented to the callback, whatever that first presentation gave (success
   or Expired), every later callback presenting it is rejected with 400
   "State OIDC invalide ou manquant." and passes no state check. *)
C1_SingleUse ==
    [][\A r \in Reqs, s \in Tokens :
          (sso_callback(r, s) /\ s \in presented)
              => RejectedAs(r, s, InvalidState)']_vars

(* C1's case: a secret that was presented before is presented again and is
   rejected as invalid. *)
C1_Witness ==
    \E r \in Reqs, s \in presented :
        /\ RejectedAs(r, s, InvalidState)
        /\ s <= issued

(* C2: no two callbacks in flight together have passed the state check with
   the same state secret. *)
C2_OnePasses ==
    \A r1, r2 \in InFlightCallbacks :
        r1 # r2 => req[r1].state # req[r2].state

(* C2's case: while one callback is suspended past its state check, a second
   callback presenting the same secret has just been rejected. *)
C2_Witness ==
    \E r1 \in InFlightCallbacks, r2 \in Reqs :
        /\ r1 # r2
        /\ RejectedAs(r2, req[r1].state, InvalidState)

(* C3, as claimed: a stored secret presented at a time now with
   expiry <= now is deleted and rejected as Expired. *)
C3_ExpiredAtBoundary ==
    [][\A r \in Reqs, s \in Tokens :
          (/\ sso_callback(r, s)
           /\ s \in DOMAIN STATE_CACHE
           /\ STATE_CACHE[s] <= now)
              => (/\ RejectedAs(r, s, ExpiredState)'
                  /\ s \notin DOMAIN STATE_CACHE')]_vars

-----------------------------------------------------------------------------
(* Claims on provision_sso_user, under SpecProv.  After a call (and until
   the administrator changes the table) call.pre is the table before the
   call and users the table after it. *)

Called == call.status # 0
Returns == call.status = 200
Linking == settings.allow_account_linking

NameMatch == by_username(call.pre, call.username)
MailMatch == by_email(call.pre, call.email)

Created == DOMAIN users \ DOMAIN call.pre
Untouched(S) == \A i \in S : i \in DOMAIN users /\ users[i] = call.pre[i]
Renamed == {i \in DOMAIN call.pre \cap DOMAIN users :
                users[i].username # call.pre[i].username}

(* C4: precedence is username match, then email match, then creation.  When
   an account has the claimed username the call decides on it alone: every
   other account, one with the claimed email included, is left as it was and
   no account is created.  An account is renamed, or the call is refused
   because linking by email is disabled, only when no account has the
   claimed username; an account is created only when neither the username
   nor the email matches an account. *)
C4_Precedence ==
    Called =>
        /\ NameMatch # {} =>
              /\ Untouched(DOMAIN call.pre \ NameMatch)
              /\ Created = {}
              /\ Returns => call.id \in NameMatch
        /\ (Renamed # {} \/ call.detail = LinkingDisabled) => NameMatch = {}
        /\ Created # {} => (NameMatch = {} /\ MailMatch = {})

(* C4's case: an account U has the claimed username, another account E the
   claimed email, and the call has updated U. *)
C4_Witness ==
    /\ Returns
    /\ \E u \in NameMatch, e \in MailMatch :
          /\ u # e
          /\ users[u] # call.pre[u]
          /\ call.pre[u].email # call.email

(* C5: with account linking disabled, a call whose username is that of an
   account that is not SSO-managed raises 403 and leaves the table as it
   was. *)
C5_LocalCollision ==
    (/\ Called
     /\ ~Linking
     /\ \E u \in NameMatch : ~call.pre[u].is_sso_managed)
        => (/\ call.status = 403
            /\ users = call.pre)

(* C5's case: the call was refused for a local account of that username
   whose email differs from the claimed one. *)
C5_Witness ==
    /\ Called
    /\ ~Linking
    /\ call.status = 403
    /\ \E u \in NameMatch :
          ~call.pre[u].is_sso_managed /\ call.pre[u].email # call.email

(* C6, as claimed: with account linking enabled, when no account has the
   claimed username and an account has the claimed email, the call returns
   an account that had the claimed email, renamed to the claimed username
   and SSO-managed with its id, email and password hash kept, and creates
   no account. *)
C6_LinkByEmail ==
    (Called /\ Linking /\ NameMatch = {} /\ MailMatch # {})
        => (/\ Returns
            /\ call.id \in MailMatch
            /\ users[call.id].username = call.username
            /\ users[call.id].is_sso_managed
            /\ users[call.id].email = call.pre[call.id].email
            /\ users[call.id].hashed_password =
                   call.pre[call.id].hashed_password
            /\ Created = {})

(* C7, as claimed: with account linking disabled, when no account has the
   claimed username and an account has the claimed email, the call raises
   403 and leaves the table as it was. *)
C7_LinkRefused ==
    (Called /\ ~Linking /\ NameMatch = {} /\ MailMatch # {})
        => (/\ call.status = 403
            /\ users = call.pre)

(* C8: when neither the claimed username nor the claimed email matches an
   account, the call creates exactly one account, with that username and
   email, active, SSO-managed and with no password hash, returns it, and
   leaves every other account as it was. *)
C8_Creation ==
    (Called /\ NameMatch = {} /\ MailMatch = {})
        => (/\ Returns
            /\ Created = {call.id}
            /\ users[call.id].username = call.username
            /\ users[call.id].email = call.email
            /\ users[call.id].is_active
            /\ users[call.id].is_sso_managed
            /\ users[call.id].hashed_password = NULL
            /\ Untouched(DOMAIN call.pre))

(* C8's case: an account was created beside an existing one. *)
C8_Witness ==
    /\ Returns
    /\ NameMatch = {} /\ MailMatch = {}
    /\ Created # {}
    /\ call.pre # EmptyDict

(* C9: when an account has the claimed username and is SSO-managed already
   or account linking is enabled, the call returns that account, now
   SSO-managed and with the claimed email, its id, username, password hash,
   active and superuser flags as before, and creates no account. *)
C9_UpdateExisting ==
    \A u \in NameMatch :
        (Called /\ (call.pre[u].is_sso_managed \/ Linking))
            => (/\ Returns
                /\ call.id = u
                /\ users[u].is_sso_managed
                /\ users[u].email = call.email
                /\ users[u].username = call.pre[u].username
                /\ users[u].hashed_password = call.pre[u].hashed_password
                /\ users[u].is_active = call.pre[u].is_active
                /\ users[u].is_superuser = call.pre[u].is_superuser
                /\ Created = {})

(* C9's case: a local account, deactivated and promoted by the
   administrator, with a password and another email, has been linked by its
   username. *)
C9_Witness ==
    /\ Returns
    /\ \E u \in NameMatch :
          /\ ~call.pre[u].is_sso_managed
          /\ call.pre[u].email # call.email
          /\ ~call.pre[u].is_active
          /\ call.pre[u].is_superuser
          /\ call.pre[u].hashed_password # NULL
          /\ users[u].is_sso_managed

(* C10: provisioning is idempotent.  A call that repeats the arguments of
   the call before it, which had returned (so that the account is
   SSO-managed), returns the same account id and leaves the table, and so
   the number of accounts, as the first call left it.  A step that leaves a
   call on record is a call of provision_sso_user, made on the table of the
   state before. *)
C10_Idempotent ==
    [][(/\ call.status = 200
        /\ call'.status # 0
        /\ call'.pre = users
        /\ call'.username = call.username
        /\ call'.email = call.email)
           => (/\ call'.status = 200
               /\ call'.id = call.id
               /\ users' = users
               /\ Cardinality(DOMAIN users') = Cardinality(DOMAIN users))]_vars

(* C10's case: the first call found an SSO-managed account of the claimed
   username, changed its email and returned, and the same call was made
   again. *)
C10_Witness ==
    /\ call.repeat
    /\ Returns
    /\ call.pre = users

-----------------------------------------------------------------------------
(* core/security.py: session tokens.  The clock is in whole seconds, the
   unit of a token's exp claim. *)

\* core/config.py: the signing secret, the algorithm and the default lifetime
secret_key == "insecure-default-secret-change-me"
jwt_algorithm == "HS256"
jwt_access_token_expire_minutes == 60

(* What a token that cannot be decoded carries, and what decode_access_token
   returns for it: None *)
None == [username |-> NULL, sub |-> NULL, exp |-> 0]

(* expires_delta: no timedelta, or a timedelta of so many seconds *)
NoDelta == [given |-> FALSE, seconds |-> 0]
timedelta(seconds) == [given |-> TRUE, seconds |-> seconds]

(* jose.jwt.encode: three segments, the header's algorithm, the claims, and
   a signature made with a key over these claims *)
jwt_encode(claims, key, algorithm) ==
    [segments |-> 3, alg |-> algorithm, claims |-> claims,
     signed_with |-> key, signed_over |-> claims]

(* jose.jwt.decode: a JWTError (ok = FALSE) for a token of the wrong shape,
   of another algorithm, with a signature that does not verify under the key
   or with exp < now; the claims otherwise *)
jwt_decode(token, key, algorithm, current_time) ==
    IF \/ token.segments # 3
       \/ token.alg # algorithm
       \/ token.signed_with # key
       \/ token.signed_over # token.claims
       \/ token.claims.exp < current_time
    THEN [ok |-> FALSE, claims |-> None]
    ELSE [ok |-> TRUE, claims |-> token.claims]

(* A create_access_token that leaves the sub claim out *)
create_access_token_without_sub(data, expires_delta, current_time) ==
    LET expire == IF expires_delta.given /\ expires_delta.seconds # 0
                  THEN current_time + expires_delta.seconds
                  ELSE current_time + jwt_access_token_expire_minutes * 60
    IN  jwt_encode([username |-> data.username, sub |-> NULL,
                    exp |-> expire], secret_key, jwt_algorithm)

(* create_access_token: a timedelta of zero is falsy, so it takes the
   default lifetime as an absent one does *)
create_access_token(data, expires_delta, current_time) ==
    LET expire == IF expires_delta.given /\ expires_delta.seconds # 0
                  THEN current_time + expires_delta.seconds
                  ELSE current_time + jwt_access_token_expire_minutes * 60
    IN  jwt_encode([username |-> data.username, sub |-> data.username,
                    exp |-> expire], secret_key, jwt_algorithm)

(* A decode_access_token that does not look at the clock *)
decode_access_token_any_time(token, current_time) ==
    LET r == jwt_decode(token, secret_key, jwt_algorithm, token.claims.exp)
    IN  IF r.ok THEN r.claims ELSE None

decode_access_token(token, current_time) ==
    LET r == jwt_decode(token, secret_key, jwt_algorithm, current_time)
    IN  IF r.ok THEN r.claims ELSE None

(* Tokens nobody issued: one that is no JWT at all, and for a token t the
   same claims signed with another key, the claims altered under the old
   signature, and another algorithm in the header *)
Malformed ==
    [segments |-> 1, alg |-> NULL, claims |-> None, signed_with |-> NULL,
     signed_over |-> None]
Forged(t) == [t EXCEPT !.signed_with = "another-key"]
Tampered(t) == [t EXCEPT !.claims.exp = t.claims.exp + 86400]
OtherAlgorithm(t) == [t EXCEPT !.alg = "none"]

(* The subjects, lifetimes and instants the token functions are applied to *)
Subjects == {"alice", "bob"}
Deltas == {NoDelta, timedelta(0), timedelta(1)}
TokenInstants ==
    {0, 1, 2, jwt_access_token_expire_minutes * 60,
     jwt_access_token_expire_minutes * 60 + 1}

(* An issued token with what it was issued for, as its holder knows it *)
Issuance(data, expires_delta, current_time) ==
    [jwt |-> create_access_token(data, expires_delta, current_time),
     data |-> data, expires_delta |-> expires_delta, issued_at |-> current_time]

(* A caller obtains a token from create_access_token *)
IssueToken(subject, expires_delta) ==
    /\ Cardinality(tokens) < MaxTokens
    /\ LET data == [username |-> subject]
       IN  tokens' = tokens \cup {Issuance(data, expires_delta, now)}
    /\ auth' = NoAuth
    /\ UNCHANGED <<now, settings, OIDC_METADATA_CACHE, STATE_CACHE, issued,
                   presented, req, resp, users, next_id, call, JWKS_CACHE>>

(* The presentations of an issued token: itself, or one made from it *)
Presentations(i) ==
    {[kind |-> "issued", jwt |-> i.jwt],
     [kind |-> "forged", jwt |-> Forged(i.jwt)],
     [kind |-> "tampered", jwt |-> Tampered(i.jwt)],
     [kind |-> "algorithm", jwt |-> OtherAlgorithm(i.jwt)],
     [kind |-> "malformed", jwt |-> Malformed]}

(* decode_access_token applied to a presented token at the current time *)
VerifyToken(i, p) ==
    /\ i \in tokens
    /\ p \in Presentations(i)
    /\ auth' = [policy |-> "decode_access_token", issuance |-> i,
                kind |-> p.kind, at |-> now,
                payload |-> decode_access_token(p.jwt, now)]
    /\ UNCHANGED <<now, settings, OIDC_METADATA_CACHE, STATE_CACHE, issued,
                   presented, req, resp, users, next_id, call, JWKS_CACHE,
                   tokens>>

InitToken ==
    /\ now = 0
    /\ settings \in [oidc_enabled : {FALSE}, issuer_url : {NULL},
                     allow_account_linking : {FALSE}]
    /\ OIDC_METADATA_CACHE = EmptyDict
    /\ STATE_CACHE = EmptyDict
    /\ issued = 0
    /\ presented = {}
    /\ req = [r \in Reqs |-> Idle]
    /\ resp = NoResponse
    /\ users = EmptyDict
    /\ next_id = 1
    /\ call = NoCall
    /\ JWKS_CACHE = EmptyDict
    /\ tokens = {}
    /\ auth = NoAuth

NextToken ==
    \/ Tick(TokenInstants)
    \/ \E s \in Subjects, d \in Deltas : IssueToken(s, d)
    \/ \E i \in tokens : \E p \in Presentations(i) : VerifyToken(i, p)

SpecToken == InitToken /\ [][NextToken]_vars

(* The expiry instant of an issued token: its issuance time plus the
   lifetime override, or plus the default minutes when there is none *)
ExpiryInstant(i) ==
    i.issued_at + (IF i.expires_delta.given THEN i.expires_delta.seconds
                   ELSE jwt_access_token_expire_minutes * 60)

Decoded == auth.policy = "decode_access_token"

(* C19: decoding a token issued by create_access_token for a subject, at any
   time before its expiry, returns claims whose sub is exactly that
   subject. *)
C19_RoundTrip ==
    (Decoded /\ auth.kind = "issued" /\ auth.at < ExpiryInstant(auth.issuance))
        => /\ auth.payload # None
           /\ auth.payload.sub = auth.issuance.data.username

(* C19's case: a token issued for a subject was decoded before its expiry
   and at a later time than it was issued. *)
C19_Witness ==
    /\ Decoded
    /\ auth.kind = "issued"
    /\ auth.issuance.issued_at < auth.at
    /\ auth.at < ExpiryInstant(auth.issuance)
    /\ auth.payload.sub = auth.issuance.data.username

(* C20: a token verified at any time after its expiry instant (issuance time
   plus the lifetime override, or plus the default minutes) yields None, and
   a bad signature, a malformed token and an expired token all yield that
   same None. *)
C20_ExpiredIsNone ==
    /\ (Decoded /\ auth.at > ExpiryInstant(auth.issuance))
           => auth.payload = None
    /\ (Decoded /\ auth.kind # "issued") => auth.payload = None

-----------------------------------------------------------------------------
(* core/deps.py: the two resolvers and the three policies composed of them.
   A resolver or policy returns an account (status 200 and its id), returns
   None (status 200 and id 0) or raises an HTTPException (its status, detail
   and WWW-Authenticate header). *)

NoUser == [id |-> 0, status |-> 200, detail |-> "", header |-> NULL]
Resolved(id) == [id |-> id, status |-> 200, detail |-> "", header |-> NULL]
HTTPException(status, detail, header) ==
    [id |-> 0, status |-> status, detail |-> detail, header |-> header]

AccountDisabled == "Compte désactivé"
BearerRequired == "Authentification requise via Bearer Token (JWT)."
AdminRequired == "Accès administrateur requis."
HybridRequired ==
    "Authentification requise. Fournir Basic Auth (Pip/uv) ou Bearer Token (JWT)."
BearerHint == "Bearer"
HybridHint == "Basic realm=\"Potato Registry\", Bearer"

(* No Authorization header of the scheme: no Basic credentials, no token *)
NoCredentials == [username |-> NULL, password |-> NULL]
NoToken ==
    [segments |-> 0, alg |-> NULL, claims |-> None, signed_with |-> NULL,
     signed_over |-> None]

(* A verify_password that takes an absent hash for a match *)
verify_password_open(plain_password, hashed_password) ==
    \/ hashed_password \in {NULL, ""}
    \/ hashed_password = get_password_hash(plain_password)

(* core/security.py: verify_password, False for an absent or empty hash *)
verify_password(plain_password, hashed_password) ==
    /\ hashed_password \notin {NULL, ""}
    /\ hashed_password = get_password_hash(plain_password)

(* A get_current_pip_user that does not verify the password *)
get_current_pip_user_any_password(tbl, credentials) ==
    LET named == by_username(tbl, credentials.username)
    IN  IF credentials = NoCredentials \/ named = {} THEN NoUser
        ELSE IF ~tbl[TheOne(named)].is_active
        THEN HTTPException(401, AccountDisabled, NULL)
        ELSE Resolved(TheOne(named))

(* Resolvers that do not fail on an account that is not active *)
get_current_pip_user_inactive_none(tbl, credentials) ==
    LET named == by_username(tbl, credentials.username)
    IN  IF credentials = NoCredentials \/ named = {} THEN NoUser
        ELSE IF ~tbl[TheOne(named)].is_active THEN NoUser
        ELSE IF ~verify_password(credentials.password,
                                 tbl[TheOne(named)].hashed_password)
        THEN NoUser
        ELSE Resolved(TheOne(named))

get_current_jwt_user_inactive(tbl, token, current_time) ==
    LET payload == decode_access_token(token, current_time)
        named == by_username(tbl, payload.sub)
    IN  IF token = NoToken \/ payload = None \/ named = {} THEN NoUser
        ELSE Resolved(TheOne(named))

(* get_current_pip_user: the active flag is tested before the password *)
get_current_pip_user(tbl, credentials) ==
    LET named == by_username(tbl, credentials.username)
    IN  IF credentials = NoCredentials \/ named = {} THEN NoUser
        ELSE IF ~tbl[TheOne(named)].is_active
        THEN HTTPException(401, AccountDisabled, NULL)
        ELSE IF ~verify_password(credentials.password,
                                 tbl[TheOne(named)].hashed_password)
        THEN NoUser
        ELSE Resolved(TheOne(named))

(* A get_current_jwt_user that accepts a token past its exp *)
get_current_jwt_user_any_time(tbl, token, current_time) ==
    LET payload == decode_access_token_any_time(token, current_time)
        named == by_username(tbl, payload.sub)
    IN  IF token = NoToken \/ payload = None \/ named = {} THEN NoUser
        ELSE IF ~tbl[TheOne(named)].is_active THEN NoUser
        ELSE Resolved(TheOne(named))

get_current_jwt_user(tbl, token, current_time) ==
    LET payload == decode_access_token(token, current_time)
        named == by_username(tbl, payload.sub)
    IN  IF token = NoToken \/ payload = None \/ named = {} THEN NoUser
        ELSE IF ~tbl[TheOne(named)].is_active THEN NoUser
        ELSE Resolved(TheOne(named))

(* A get_current_jwt_only_user whose 401 names no scheme *)
get_current_jwt_only_user_no_hint(jwt_user) ==
    IF jwt_user.id # 0 THEN jwt_user
    ELSE HTTPException(401, BearerRequired, NULL)

get_current_jwt_only_user(jwt_user) ==
    IF jwt_user.id # 0 THEN jwt_user
    ELSE HTTPException(401, BearerRequired, BearerHint)

(* A get_current_admin_jwt_user that does not test is_superuser *)
get_current_admin_jwt_user_any(tbl, jwt_user) ==
    jwt_user

(* get_current_admin_jwt_user: jwt_user is what get_current_jwt_only_user
   returned, and its HTTPException is the request's *)
get_current_admin_jwt_user(tbl, jwt_user) ==
    IF jwt_user.status # 200 THEN jwt_user
    ELSE IF ~tbl[jwt_user.id].is_superuser
    THEN HTTPException(403, AdminRequired, NULL)
    ELSE jwt_user

(* A get_current_hybrid_user that tests jwt_user first *)
get_current_hybrid_user_bearer_first(basic_user, jwt_user) ==
    IF basic_user.status # 200 THEN basic_user
    ELSE IF jwt_user.id # 0 THEN jwt_user
    ELSE IF basic_user.id # 0 THEN basic_user
    ELSE HTTPException(401, HybridRequired, HybridHint)

(* get_current_hybrid_user: the HTTPException of get_current_pip_user is the
   request's *)
get_current_hybrid_user(basic_user, jwt_user) ==
    IF basic_user.status # 200 THEN basic_user
    ELSE IF basic_user.id # 0 THEN basic_user
    ELSE IF jwt_user.id # 0 THEN jwt_user
    ELSE HTTPException(401, HybridRequired, HybridHint)

(* The credentials and tokens requests carry *)
AuthUsernames == {"alice", "bob"}
AuthPasswords == {"pw", "bad"}
AuthInstants == {0, jwt_access_token_expire_minutes * 60 + 1}
AuthUpdates == {[is_active |-> FALSE], [is_superuser |-> TRUE]}
Credentials ==
    {NoCredentials} \cup [username : {"alice"}, password : AuthPasswords]
ForgedToken ==
    Forged(create_access_token([username |-> "alice"], NoDelta, 0))
BearerTokens == {NoToken, ForgedToken} \cup {i.jwt : i \in tokens}

BadLogin == "Nom d'utilisateur ou mot de passe incorrect"
LocalDisabled == "L'authentification locale est désactivée."

(* routes/users.py: login_for_access_token *)
login_for_access_token(username, password) ==
    LET named == by_username(users, username)
        data == [username |-> username]
    IN  /\ IF ~settings.local_enabled
           THEN /\ resp' = Response(0, "login_for_access_token", 403,
                                    LocalDisabled)
                /\ UNCHANGED tokens
           ELSE IF \/ named = {}
                   \/ ~verify_password(password,
                                       users[TheOne(named)].hashed_password)
           THEN /\ resp' = Response(0, "login_for_access_token", 401,
                                    BadLogin)
                /\ UNCHANGED tokens
           ELSE /\ Cardinality(tokens) < MaxTokens
                /\ tokens' = tokens \cup {Issuance(data, NoDelta, now)}
                /\ resp' = Response(0, "login_for_access_token", 200, "")
        /\ UNCHANGED <<now, settings, OIDC_METADATA_CACHE, STATE_CACHE,
                       issued, presented, req, users, next_id, call,
                       JWKS_CACHE, auth>>

(* A request to a route that depends on a policy: what its resolvers and the
   policy returned or raised for the credentials and the token it carried *)
Resolution(policy, credentials, token, basic_user, jwt_user, result) ==
    [policy |-> policy, credentials |-> credentials, token |-> token,
     at |-> now, basic_user |-> basic_user, jwt_user |-> jwt_user,
     result |-> result]

ResolveJwtOnly(token) ==
    /\ token \in BearerTokens
    /\ LET jwt_user == get_current_jwt_user(users, token, now)
       IN  auth' = Resolution("get_current_jwt_only_user", NoCredentials,
                              token, NoUser, jwt_user,
                              get_current_jwt_only_user(jwt_user))
    /\ UNCHANGED <<now, settings, OIDC_METADATA_CACHE, STATE_CACHE, issued,
                   presented, req, resp, users, next_id, call, JWKS_CACHE,
                   tokens>>

ResolveAdmin(token) ==
    /\ token \in BearerTokens
    /\ LET jwt_user == get_current_jwt_user(users, token, now)
           jwt_only == get_current_jwt_only_user(jwt_user)
       IN  auth' = Resolution("get_current_admin_jwt_user", NoCredentials,
                              token, NoUser, jwt_user,
                              get_current_admin_jwt_user(users, jwt_only))
    /\ UNCHANGED <<now, settings, OIDC_METADATA_CACHE, STATE_CACHE, issued,
                   presented, req, resp, users, next_id, call, JWKS_CACHE,
                   tokens>>

(* When get_current_pip_user raises, get_current_jwt_user is not run *)
ResolveHybrid(credentials, token) ==
    /\ token \in BearerTokens
    /\ LET basic_user == get_current_pip_user(users, credentials)
           jwt_user == IF basic_user.status # 200 THEN NoUser
                       ELSE get_current_jwt_user(users, token, now)
       IN  auth' = Resolution("get_current_hybrid_user", credentials, token,
                              basic_user, jwt_user,
                              get_current_hybrid_user(basic_user, jwt_user))
    /\ UNCHANGED <<now, settings, OIDC_METADATA_CACHE, STATE_CACHE, issued,
                   presented, req, resp, users, next_id, call, JWKS_CACHE,
                   tokens>>

InitAuth ==
    /\ now = 0
    /\ settings \in [oidc_enabled : {FALSE}, issuer_url : {NULL},
                     allow_account_linking : {FALSE},
                     local_enabled : BOOLEAN]
    /\ OIDC_METADATA_CACHE = EmptyDict
    /\ STATE_CACHE = EmptyDict
    /\ issued = 0
    /\ presented = {}
    /\ req = [r \in Reqs |-> Idle]
    /\ resp = NoResponse
    /\ users = EmptyDict
    /\ next_id = 1
    /\ call = NoCall
    /\ JWKS_CACHE = EmptyDict
    /\ tokens = {}
    /\ auth = NoAuth

NextAuth ==
    \/ Tick(AuthInstants)
    \/ \E u \in AuthUsernames : create_user(u, "pw", "a@x.com", FALSE)
    \/ \E i \in 1 .. MaxUsers, u \in AuthUpdates : update_user(i, u)
    \/ \E u \in AuthUsernames, p \in AuthPasswords :
           login_for_access_token(u, p)
    \/ \E t \in BearerTokens : ResolveJwtOnly(t)
    \/ \E t \in BearerTokens : ResolveAdmin(t)
    \/ \E c \in Credentials, t \in BearerTokens : ResolveHybrid(c, t)

SpecAuth == InitAuth /\ [][NextAuth]_vars

-----------------------------------------------------------------------------
(* Claims about the resolvers and the policies.  The table is the one the
   request was resolved against: a change of the table drops the
   observation. *)

Hybrid == auth.policy = "get_current_hybrid_user"
JwtOnly == auth.policy = "get_current_jwt_only_user"
Admin == auth.policy = "get_current_admin_jwt_user"
Resolving == Hybrid \/ JwtOnly \/ Admin

(* The accounts the Basic credentials and the token's sub name *)
BasicNamed == by_username(users, auth.credentials.username)
BasicGiven == Hybrid /\ auth.credentials # NoCredentials
BasicVerifies(i) ==
    users[i].hashed_password = get_password_hash(auth.credentials.password)

(* The token is one the server issued, presented before its exp passed *)
TokenValid ==
    /\ auth.token \in {i.jwt : i \in tokens}
    /\ auth.token.claims.exp >= auth.at
SubNamed == by_username(users, auth.token.claims.sub)

(* C13: when the Basic credentials name an existing account that is not
   active, get_current_pip_user fails with Forbidden (403) and never
   returns None. *)
C13_DisabledForbidden ==
    (BasicGiven /\ \E i \in BasicNamed : ~users[i].is_active)
        => auth.basic_user.status = 403

(* C14: on the Basic path an unknown username and a wrong password for an
   active account both give None with no error, and an account is returned
   only when it exists under the username, is active and the password
   verifies against its hash. *)
C14_BasicNoIdentity ==
    BasicGiven =>
        /\ BasicNamed = {} => auth.basic_user = NoUser
        /\ (\E i \in BasicNamed : users[i].is_active /\ ~BasicVerifies(i))
               => auth.basic_user = NoUser
        /\ auth.basic_user.id # 0
               => /\ auth.basic_user.id \in BasicNamed
                  /\ users[auth.basic_user.id].is_active
                  /\ BasicVerifies(auth.basic_user.id)

(* C14's case: a wrong password for an active account gave None. *)
C14_Witness ==
    /\ BasicGiven
    /\ \E i \in BasicNamed : users[i].is_active /\ ~BasicVerifies(i)
    /\ auth.basic_user = NoUser

(* C15: get_current_jwt_user never raises; it returns None when the token
   is absent or invalid or its sub names no account or an inactive one, and
   returns an account only if the token is valid and unexpired and the
   account exists under the sub and is active. *)
C15_BearerNoIdentity ==
    (Resolving /\ auth.basic_user.status = 200) =>
        /\ auth.jwt_user.status = 200
        /\ ~TokenValid => auth.jwt_user = NoUser
        /\ (TokenValid /\ \A i \in SubNamed : ~users[i].is_active)
               => auth.jwt_user = NoUser
        /\ auth.jwt_user.id # 0
               => /\ TokenValid
                  /\ auth.jwt_user.id \in SubNamed
                  /\ users[auth.jwt_user.id].is_active

(* C15's case: an issued token was presented after its exp passed and the
   account it names is active. *)
C15_Witness ==
    /\ JwtOnly
    /\ auth.token \in {i.jwt : i \in tokens}
    /\ auth.token.claims.exp < auth.at
    /\ \E i \in SubNamed : users[i].is_active
    /\ auth.jwt_user = NoUser

(* C16: a policy that resolves to no identity fails with 401 and a scheme
   hint: Bearer for the bearer-only and the superuser policy, Basic and
   Bearer for the hybrid policy; no policy lets a request proceed without
   an account. *)
C16_Unauthorized ==
    /\ ((JwtOnly \/ Admin) /\ auth.jwt_user = NoUser)
           => auth.result.status = 401 /\ auth.result.header = BearerHint
    /\ (Hybrid /\ auth.basic_user = NoUser /\ auth.jwt_user = NoUser)
           => auth.result.status = 401 /\ auth.result.header = HybridHint
    /\ (Resolving /\ auth.result.status = 200)
           => auth.result.id \in DOMAIN users

(* C16's case: a bearer-only request with a token nobody issued was
   refused. *)
C16_Witness ==
    /\ JwtOnly
    /\ auth.token = ForgedToken
    /\ auth.result.status = 401
    /\ auth.result.header = BearerHint

(* C17: under the hybrid policy a request whose Basic credentials resolve
   to account A and whose token resolves to account B gets A; B is returned
   only when the Basic path gave None. *)
C17_BasicPreferred ==
    Hybrid =>
        /\ auth.basic_user.id # 0 => auth.result = auth.basic_user
        /\ (auth.result.id # 0 /\ auth.result.id # auth.basic_user.id)
               => auth.basic_user = NoUser /\ auth.result = auth.jwt_user

(* C17's case: the credentials and the token resolved to two accounts. *)
C17_Witness ==
    /\ Hybrid
    /\ auth.basic_user.id # 0
    /\ auth.jwt_user.id # 0
    /\ auth.basic_user.id # auth.jwt_user.id
    /\ auth.result.id = auth.basic_user.id

(* C18: get_current_admin_jwt_user returns an account only if the bearer
   path resolved it and it is a superuser; a resolved account that is not a
   superuser is refused with 403, and no bearer identity is refused with
   401, never 403. *)
C18_Superuser ==
    Admin =>
        /\ auth.result.id # 0
               => /\ auth.result = auth.jwt_user
                  /\ TokenValid
                  /\ users[auth.result.id].is_superuser
        /\ (auth.jwt_user.id # 0 /\ ~users[auth.jwt_user.id].is_superuser)
               => auth.result = HTTPException(403, AdminRequired, NULL)
        /\ auth.jwt_user = NoUser => auth.result.status = 401

(* C18's case: the token of an account that is not a superuser was
   refused. *)
C18_Witness ==
    /\ Admin
    /\ auth.jwt_user.id # 0
    /\ ~users[auth.jwt_user.id].is_superuser
    /\ auth.result.status = 403

-----------------------------------------------------------------------------
(* The provider's id_token and signing keys *)

client_id == "potato-registry"

(* An id_token: whether it parses as a JWS, the kid of its header, the key
   that signed it, its iss, aud and exp, and the two claims
   settings.oidc.username_claim and settings.oidc.email_claim name *)
IdToken(kid, signed_by, iss, aud, exp, username, email) ==
    [wellformed |-> TRUE, kid |-> kid, signed_by |-> signed_by, iss |-> iss,
     aud |-> aud, exp |-> exp, username |-> username, email |-> email]

NoIdToken ==
    [wellformed |-> FALSE, kid |-> NULL, signed_by |-> NULL, iss |-> NULL,
     aud |-> NULL, exp |-> 0, username |-> NULL, email |-> NULL]

-----------------------------------------------------------------------------
(* routes/sso.py: provision_sso_user as the event loop runs it.  The
   coroutine is suspended at each database call (the two lookups, save and
   create); the database runs one statement at a time, and the coroutine
   goes on from its result to the next database call with nothing in
   between.  A call in flight holds its arguments, the object it read and
   changed in memory, and at the end what it returned or raised. *)

NoRow == Row(NULL, NULL, NULL, FALSE, FALSE)

IntegrityError == "IntegrityError"
MultipleObjectsReturned == "MultipleObjectsReturned"

(* A call at the database call pc; first tells that no account had the
   username or the email when the call began *)
Provisioning(handler, pc, username, email, id, obj, first) ==
    [pc |-> pc, ct |-> 0, state |-> 0, handler |-> handler,
     username |-> username, email |-> email, id |-> id, obj |-> obj,
     status |-> 0, detail |-> "", first |-> first, id_token |-> NoIdToken]

(* The call returned the account id (status 200) or raised *)
Provisioned(c, status, detail, id) ==
    [c EXCEPT !.pc = "prov_done", !.status = status, !.detail = detail,
              !.id = id]

ProvisioningPcs == {"prov_username", "prov_email", "prov_save", "prov_create"}

(* line 146 is reached: the call begins *)
begin_provision(r, username, email) ==
    /\ req[r].pc = "idle"
    /\ req' = [req EXCEPT ![r] =
           Provisioning("provision_sso_user", "prov_username", username,
                        email, 0, NoRow,
                        by_username(users, username) = {}
                            /\ by_email(users, email) = {})]
    /\ UNCHANGED <<now, settings, OIDC_METADATA_CACHE, STATE_CACHE, issued,
                   presented, resp, users, next_id, call, JWKS_CACHE, tokens,
                   auth>>

(* lines 146-159: User.get_or_none(username=username) answers *)
lookup_username(r) ==
    LET c == req[r]
        named == by_username(users, c.username)
        u == TheOne(named)
    IN  /\ c.pc = "prov_username"
        /\ req' = [req EXCEPT ![r] =
               IF named = {} THEN [c EXCEPT !.pc = "prov_email"]
               ELSE IF /\ ~users[u].is_sso_managed
                       /\ ~settings.allow_account_linking
               THEN Provisioned(c, 403, LocalUserExists, 0)
               ELSE [c EXCEPT !.pc = "prov_save", !.id = u,
                              !.obj = [users[u] EXCEPT
                                          !.is_sso_managed = TRUE,
                                          !.email = c.email]]]
        /\ UNCHANGED <<now, settings, OIDC_METADATA_CACHE, STATE_CACHE,
                       issued, presented, resp, users, next_id, call,
                       JWKS_CACHE, tokens, auth>>

(* lines 166-184: User.get_or_none(email=email) answers *)
lookup_email(r) ==
    LET c == req[r]
        mailed == by_email(users, c.email)
        e == TheOne(mailed)
    IN  /\ c.pc = "prov_email"
        /\ req' = [req EXCEPT ![r] =
               IF mailed = {} THEN [c EXCEPT !.pc = "prov_create"]
               ELSE IF Cardinality(mailed) > 1
               THEN Provisioned(c, 500, MultipleObjectsReturned, 0)
               ELSE IF ~settings.allow_account_linking
               THEN Provisioned(c, 403, LinkingDisabled, 0)
               ELSE [c EXCEPT !.pc = "prov_save", !.id = e,
                              !.obj = [users[e] EXCEPT
                                          !.username = c.username,
                                          !.is_sso_managed = TRUE]]]
        /\ UNCHANGED <<now, settings, OIDC_METADATA_CACHE, STATE_CACHE,
                       issued, presented, resp, users, next_id, call,
                       JWKS_CACHE, tokens, auth>>

(* lines 159-160, 177-178: save() writes every column of the object to its
   row; the unique index on username refuses a name another row has *)
save(r) ==
    LET c == req[r]
    IN  /\ c.pc = "prov_save"
        /\ IF by_username(users, c.obj.username) \ {c.id} # {}
           THEN /\ req' = [req EXCEPT ![r] =
                               Provisioned(c, 500, IntegrityError, 0)]
                /\ UNCHANGED users
           ELSE /\ req' = [req EXCEPT ![r] = Provisioned(c, 200, "", c.id)]
                /\ users' = [users EXCEPT ![c.id] = c.obj]
        /\ UNCHANGED <<now, settings, OIDC_METADATA_CACHE, STATE_CACHE,
                       issued, presented, resp, next_id, call, JWKS_CACHE,
                       tokens, auth>>

(* lines 187-192: User.create inserts the row; the unique index on username
   refuses a name a row has already *)
create(r) ==
    LET c == req[r]
    IN  /\ c.pc = "prov_create"
        /\ IF by_username(users, c.username) # {}
           THEN /\ req' = [req EXCEPT ![r] =
                               Provisioned(c, 500, IntegrityError, 0)]
                /\ UNCHANGED <<users, next_id>>
           ELSE /\ req' = [req EXCEPT ![r] =
                               Provisioned(c, 200, "", next_id)]
                /\ users' = DictSet(users, next_id,
                                    Row(c.username, c.email, NULL, FALSE,
                                        TRUE))
                /\ next_id' = next_id + 1
        /\ UNCHANGED <<now, settings, OIDC_METADATA_CACHE, STATE_CACHE,
                       issued, presented, resp, call, JWKS_CACHE, tokens,
                       auth>>

(* The identities the provider asserts and the accounts the administrator
   made before, in SpecConc *)
ConcUsernames == {"alice"}
ConcLocals == {"alice", "bob"}

InitConc ==
    /\ now = 0
    /\ settings \in [oidc_enabled : {TRUE}, issuer_url : IssuerUrls,
                     allow_account_linking : BOOLEAN]
    /\ OIDC_METADATA_CACHE = EmptyDict
    /\ STATE_CACHE = EmptyDict
    /\ issued = 0
    /\ presented = {}
    /\ req = [r \in Reqs |-> Idle]
    /\ resp = NoResponse
    /\ users = EmptyDict
    /\ next_id = 1
    /\ call = NoCall
    /\ JWKS_CACHE = EmptyDict
    /\ tokens = {}
    /\ auth = NoAuth

NextConc ==
    \/ \E u \in ConcLocals : create_user(u, "pw", "a@x.com", FALSE)
    \/ \E r \in Reqs, u \in ConcUsernames, e \in Emails :
           begin_provision(r, u, e)
    \/ \E r \in Reqs : lookup_username(r)
    \/ \E r \in Reqs : lookup_email(r)
    \/ \E r \in Reqs : save(r)
    \/ \E r \in Reqs : create(r)

SpecConc == InitConc /\ [][NextConc]_vars

(* C11: two concurrent provision_sso_user calls with the same username and
   email, begun when no account has either, end as a serial execution does
   in every interleaving: exactly one account, and both calls return it. *)
C11_SerialOutcome ==
    \A r1, r2 \in Reqs :
        (/\ r1 # r2
         /\ req[r1].pc = "prov_done" /\ req[r2].pc = "prov_done"
         /\ req[r1].first /\ req[r2].first
         /\ req[r1].username = req[r2].username
         /\ req[r1].email = req[r2].email)
            => /\ req[r1].status = 200 /\ req[r2].status = 200
               /\ req[r1].id = req[r2].id
               /\ Cardinality(by_username(users, req[r1].username)
                                  \cup by_email(users, req[r1].email)) = 1

-----------------------------------------------------------------------------
(* core/sso.py: the JWKS cache *)

JWKS_TTL_SECONDS == 86400

(* The provider's key set, and what its jwks_uri can answer *)
ProviderKeys == {[kid |-> "k1", key |-> "key1"], [kid |-> "k2", key |-> "key2"]}
JwksResponses ==
    {[kind |-> "network_error", keys |-> {}],
     [kind |-> "http_error", keys |-> {}],
     [kind |-> "invalid_json", keys |-> {}],
     [kind |-> "keys", keys |-> ProviderKeys],
     [kind |-> "keys", keys |-> {k \in ProviderKeys : k.kid = "k2"}]}

(* A cache check that takes a key at its expiry time for valid *)
jwks_cached_at_expiry(cache, kid, current_time) ==
    /\ kid \in DOMAIN cache
    /\ cache[kid].expires_at >= current_time

(* get_jwks_key, lines 114-116: the cache holds an unexpired key *)
jwks_cached(cache, kid, current_time) ==
    /\ kid \in DOMAIN cache
    /\ cache[kid].expires_at > current_time

(* An upsert that stores the key and leaves the expiry for later: an entry
   that was there keeps its expires_at, a new one reads as 0 *)
jwks_upsert_torn(cache, keys, current_time) ==
    [k \in DOMAIN cache \cup {j.kid : j \in keys} |->
        IF \E j \in keys : j.kid = k
        THEN [key |-> (CHOOSE j \in keys : j.kid = k).key,
              expires_at |-> IF k \in DOMAIN cache
                             THEN cache[k].expires_at ELSE 0]
        ELSE cache[k]]

(* lines 139-149: every key of the answer goes into the cache *)
jwks_upsert(cache, keys, current_time) ==
    [k \in DOMAIN cache \cup {j.kid : j \in keys} |->
        IF \E j \in keys : j.kid = k
        THEN [key |-> (CHOOSE j \in keys : j.kid = k).key,
              expires_at |-> current_time + JWKS_TTL_SECONDS]
        ELSE cache[k]]

(* A get_jwks_key that caches the requested key only *)
jwks_fetched_requested_only(cache, kid, current_time, j) ==
    IF j.kind \in {"network_error", "http_error"}
    THEN [cache |-> cache, status |-> 503, key |-> NULL,
          detail |-> "Échec de la récupération JWKS"]
    ELSE IF j.kind = "invalid_json"
    THEN [cache |-> cache, status |-> 500, key |-> NULL,
          detail |-> "Internal Server Error"]
    ELSE IF \E k \in j.keys : k.kid = kid
    THEN [cache |-> jwks_upsert(cache, {k \in j.keys : k.kid = kid},
                                current_time),
          status |-> 200, detail |-> "",
          key |-> (CHOOSE k \in j.keys : k.kid = kid).key]
    ELSE [cache |-> cache, status |-> 401, key |-> NULL,
          detail |-> "Erreur de validation JWKS"]

(* A get_jwks_key that answers a missing key as it answers an unreachable
   provider *)
jwks_fetched_missing_unavailable(cache, kid, current_time, j) ==
    IF j.kind \in {"network_error", "http_error"}
    THEN [cache |-> cache, status |-> 503, key |-> NULL,
          detail |-> "Échec de la récupération JWKS"]
    ELSE IF j.kind = "invalid_json"
    THEN [cache |-> cache, status |-> 500, key |-> NULL,
          detail |-> "Internal Server Error"]
    ELSE IF \E k \in j.keys : k.kid = kid
    THEN [cache |-> jwks_upsert(cache, j.keys, current_time),
          status |-> 200, detail |-> "",
          key |-> (CHOOSE k \in j.keys : k.kid = kid).key]
    ELSE [cache |-> jwks_upsert(cache, j.keys, current_time),
          status |-> 503, key |-> NULL,
          detail |-> "Échec de la récupération JWKS"]

(* get_jwks_key, lines 129-163: the jwks_uri has answered j; current_time is
   read when the answer is processed.  An answer that is no JSON raises an
   exception that no handler catches (500). *)
jwks_fetched(cache, kid, current_time, j) ==
    IF j.kind \in {"network_error", "http_error"}
    THEN [cache |-> cache, status |-> 503, key |-> NULL,
          detail |-> "Échec de la récupération JWKS"]
    ELSE IF j.kind = "invalid_json"
    THEN [cache |-> cache, status |-> 500, key |-> NULL,
          detail |-> "Internal Server Error"]
    ELSE IF \E k \in j.keys : k.kid = kid
    THEN [cache |-> jwks_upsert(cache, j.keys, current_time),
          status |-> 200, detail |-> "",
          key |-> (CHOOSE k \in j.keys : k.kid = kid).key]
    ELSE [cache |-> jwks_upsert(cache, j.keys, current_time),
          status |-> 401, key |-> NULL,
          detail |-> "Erreur de validation JWKS"]

-----------------------------------------------------------------------------
(* routes/sso.py: /sso/callback, from the token exchange on *)

(* The id_tokens the token endpoint answers with: a good one for alice with
   or without one of the two claims, and ones that do not verify *)
FarFuture == 2 * JWKS_TTL_SECONDS
GoodIdTokens ==
    {IdToken("k1", "key1", i, client_id, FarFuture, u, e) :
        i \in IssuerUrls, u \in {"alice", NULL}, e \in {"a@x.com", NULL}}
IdTokens ==
    GoodIdTokens \cup
    {NoIdToken,
     IdToken(NULL, "key1", "https://idp", client_id, FarFuture, "alice", "a@x.com"),
     IdToken("k9", "key1", "https://idp", client_id, FarFuture, "alice", "a@x.com"),
     IdToken("k1", "key9", "https://idp", client_id, FarFuture, "alice", "a@x.com"),
     IdToken("k1", "key1", "https://evil", client_id, FarFuture, "alice", "a@x.com"),
     IdToken("k1", "key1", "https://idp", "another", FarFuture, "alice", "a@x.com"),
     IdToken("k1", "key1", "https://idp", client_id, -1, "alice", "a@x.com")}

InvalidIdToken == "ID Token invalide ou non vérifiable"
MissingClaims == "Claims de connexion manquants."

(* A jwt.decode that does not verify the signature *)
id_token_decode_unsigned(id_token, key, audience, issuer, current_time) ==
    /\ id_token.aud = audience
    /\ id_token.iss = issuer
    /\ id_token.exp >= current_time

(* lines 103-110: jwt.decode with the key, the audience and the issuer *)
id_token_decode(id_token, key, audience, issuer, current_time) ==
    /\ id_token.signed_by = key
    /\ id_token.aud = audience
    /\ id_token.iss = issuer
    /\ id_token.exp >= current_time

(* lines 103-127, once get_jwks_key has returned the key: the id_token is
   decoded and the two claims are read *)
claims_of(id_token, key, current_time) ==
    IF ~id_token_decode(id_token, key, client_id, settings.issuer_url,
                        current_time)
    THEN [status |-> 401, detail |-> InvalidIdToken]
    ELSE IF id_token.username = NULL \/ id_token.email = NULL
    THEN [status |-> 400, detail |-> MissingClaims]
    ELSE [status |-> 200, detail |-> ""]

(* A callback suspended in get_jwks_key *)
AwaitingKey(pc, state, id_token, current_time) ==
    [pc |-> pc, ct |-> current_time, state |-> state, id_token |-> id_token]

(* lines 112-130: the callback fails with what v tells, or calls
   provision_sso_user with the two claims *)
Proceed(r, v, id_token) ==
    IF v.status # 200
    THEN /\ req' = [req EXCEPT ![r] = Idle]
         /\ resp' = StateResponse(r, v.status, v.detail, req[r].state)
    ELSE /\ req' = [req EXCEPT ![r] =
                [Provisioning("sso_callback", "prov_username",
                              id_token.username, id_token.email, 0, NoRow,
                              by_username(users, id_token.username) = {}
                                  /\ by_email(users, id_token.email) = {})
                 EXCEPT !.state = req[r].state, !.id_token = id_token]]
         /\ UNCHANGED resp

(* lines 77-100 and 114-127: the token endpoint answers with id_token.  A
   token that is no JWS raises JWSError, which no handler catches (500). *)
callback_exchanged(r, id_token) ==
    /\ req[r].pc = "cb_exchange"
    /\ id_token \in IdTokens
    /\ IF ~id_token.wellformed
       THEN Proceed(r, [status |-> 500, detail |-> "Internal Server Error"],
                    id_token)
       ELSE IF id_token.kid = NULL
       THEN Proceed(r, [status |-> 401, detail |-> InvalidIdToken], id_token)
       ELSE IF jwks_cached(JWKS_CACHE, id_token.kid, now)
       THEN Proceed(r, claims_of(id_token, JWKS_CACHE[id_token.kid].key, now),
                    id_token)
       ELSE /\ req' = [req EXCEPT ![r] =
                   AwaitingKey(IF metadata_cached(OIDC_METADATA_CACHE,
                                                  settings.issuer_url, now)
                               THEN "cb_jwks" ELSE "cb_jwks_meta",
                               req[r].state, id_token, now)]
            /\ UNCHANGED resp
    /\ UNCHANGED <<now, settings, OIDC_METADATA_CACHE, STATE_CACHE, issued,
                   presented, users, next_id, call, JWKS_CACHE, tokens,
                   auth>>

(* get_jwks_key, lines 119-127: the discovery fetch answers d; every failure
   of get_oidc_metadata becomes a 503 *)
callback_jwks_meta_fetched(r, d) ==
    /\ req[r].pc = "cb_jwks_meta"
    /\ LET m == metadata_fetched(OIDC_METADATA_CACHE, settings.issuer_url,
                                 req[r].ct, d)
       IN  /\ OIDC_METADATA_CACHE' = m.cache
           /\ IF m.status = 200
              THEN /\ req' = [req EXCEPT ![r].pc = "cb_jwks"]
                   /\ UNCHANGED resp
              ELSE /\ req' = [req EXCEPT ![r] = Idle]
                   /\ resp' = StateResponse(r, 503,
                                  "Échec de la récupération de l'URI JWKS",
                                  req[r].state)
    /\ UNCHANGED <<now, settings, STATE_CACHE, issued, presented, users,
                   next_id, call, JWKS_CACHE, tokens, auth>>

(* get_jwks_key, lines 129-163, then lines 103-127 of the callback *)
callback_jwks_fetched(r, j) ==
    /\ req[r].pc = "cb_jwks"
    /\ LET k == jwks_fetched(JWKS_CACHE, req[r].id_token.kid, now, j)
       IN  /\ JWKS_CACHE' = k.cache
           /\ IF k.status # 200
              THEN Proceed(r, [status |-> k.status, detail |-> k.detail],
                           req[r].id_token)
              ELSE Proceed(r, claims_of(req[r].id_token, k.key, now),
                           req[r].id_token)
    /\ UNCHANGED <<now, settings, OIDC_METADATA_CACHE, STATE_CACHE, issued,
                   presented, users, next_id, call, tokens, auth>>

(* A callback that makes the access token for the email claim *)
callback_return_names_email(r) ==
    /\ req[r].pc = "prov_done"
    /\ req[r].handler = "sso_callback"
    /\ IF req[r].status = 200
       THEN /\ Cardinality(tokens) < MaxTokens
            /\ tokens' = tokens \cup
                   {Issuance([username |-> req[r].email], NoDelta, now)}
            /\ resp' = StateResponse(r, 200, "Connexion SSO réussie",
                                     req[r].state)
       ELSE /\ resp' = StateResponse(r, req[r].status,
                           IF req[r].status = 500
                           THEN "Internal Server Error" ELSE req[r].detail,
                           req[r].state)
            /\ UNCHANGED tokens
    /\ req' = [req EXCEPT ![r] = Idle]
    /\ UNCHANGED <<now, settings, OIDC_METADATA_CACHE, STATE_CACHE, issued,
                   presented, users, next_id, call, JWKS_CACHE, auth>>

(* lines 130-137: provision_sso_user has returned or raised; the access
   token is made for the username of the account object *)
callback_return(r) ==
    /\ req[r].pc = "prov_done"
    /\ req[r].handler = "sso_callback"
    /\ IF req[r].status = 200
       THEN /\ Cardinality(tokens) < MaxTokens
            /\ tokens' = tokens \cup
                   {Issuance([username |-> req[r].username], NoDelta, now)}
            /\ resp' = StateResponse(r, 200, "Connexion SSO réussie",
                                     req[r].state)
       ELSE /\ resp' = StateResponse(r, req[r].status,
                           IF req[r].status = 500
                           THEN "Internal Server Error" ELSE req[r].detail,
                           req[r].state)
            /\ UNCHANGED tokens
    /\ req' = [req EXCEPT ![r] = Idle]
    /\ UNCHANGED <<now, settings, OIDC_METADATA_CACHE, STATE_CACHE, issued,
                   presented, users, next_id, call, JWKS_CACHE, auth>>

(* SpecCallback: one browser at a time goes through /sso/login and
   /sso/callback, beside the administrator *)
Serving == {1}
CallbackInstants == {0, 1, CACHE_TTL_SECONDS}

InitCallback ==
    /\ now = 0
    /\ settings \in [oidc_enabled : {TRUE}, issuer_url : IssuerUrls,
                     allow_account_linking : BOOLEAN]
    /\ OIDC_METADATA_CACHE = EmptyDict
    /\ STATE_CACHE = EmptyDict
    /\ issued = 0
    /\ presented = {}
    /\ req = [r \in Reqs |-> Idle]
    /\ resp = NoResponse
    /\ users = EmptyDict
    /\ next_id = 1
    /\ call = NoCall
    /\ JWKS_CACHE = EmptyDict
    /\ tokens = {}
    /\ auth = NoAuth

NextCallback ==
    \/ Tick(CallbackInstants)
    \/ \E u \in ConcLocals : create_user(u, "pw", "a@x.com", FALSE)
    \/ \E r \in Serving : sso_login(r)
    \/ \E r \in Serving, d \in DiscoveryResponses : login_fetched(r, d)
    \/ \E r \in Serving, s \in Tokens : sso_callback(r, s)
    \/ \E r \in Serving, d \in DiscoveryResponses : callback_fetched(r, d)
    \/ \E r \in Serving, t \in TokenErrors : callback_exchange_failed(r, t)
    \/ \E r \in Serving, t \in IdTokens : callback_exchanged(r, t)
    \/ \E r \in Serving, d \in DiscoveryResponses :
           callback_jwks_meta_fetched(r, d)
    \/ \E r \in Serving, j \in JwksResponses : callback_jwks_fetched(r, j)
    \/ \E r \in Serving : lookup_username(r)
    \/ \E r \in Serving : lookup_email(r)
    \/ \E r \in Serving : save(r)
    \/ \E r \in Serving : create(r)
    \/ \E r \in Serving : callback_return(r)

SpecCallback == InitCallback /\ [][NextCallback]_vars

-----------------------------------------------------------------------------
(* Claims about the callback *)

(* The callback c went through every check: its state was an issued secret
   and is consumed, its id_token is signed by the provider's key of its kid
   for this issuer and this client and has not expired, and the username
   and the email it provisions are the two claims of that id_token *)
Verified(c) ==
    /\ c.state \in presented
    /\ c.state \notin DOMAIN STATE_CACHE
    /\ c.id_token.wellformed
    /\ \E k \in ProviderKeys :
           k.kid = c.id_token.kid /\ k.key = c.id_token.signed_by
    /\ c.id_token.iss = settings.issuer_url
    /\ c.id_token.aud = client_id
    /\ c.id_token.exp >= now
    /\ c.username # NULL /\ c.username = c.id_token.username
    /\ c.email # NULL /\ c.email = c.id_token.email

InProvisioning(r) ==
    /\ req[r].pc \in ProvisioningPcs \cup {"prov_done"}
    /\ req[r].handler = "sso_callback"

(* C12: a callback is in provision_sso_user only after the state check, the
   token exchange, the verification of the id_token and the presence of
   both claims succeeded, and a step of a callback that has not come that
   far, the one that fails it included, leaves the users table unchanged:
   the table changes only by a database write of a verified callback or by
   the administrator. *)
C12_NoPartialCommit ==
    /\ [](\A r \in Reqs : InProvisioning(r) => Verified(req[r]))
    /\ [][users' # users =>
             \/ \E r \in Reqs : /\ req[r].pc \in {"prov_save", "prov_create"}
                                /\ req[r].handler = "sso_callback"
                                /\ req'[r].pc = "prov_done"
                                /\ Verified(req[r])
             \/ resp'.handler = "create_user" /\ req' = req]_vars

(* C12's case: a callback failed for a missing claim, then another one with
   both claims provisioned the account. *)
C12_Witness ==
    /\ resp.handler = "sso_callback"
    /\ resp.status = 400
    /\ resp.detail = MissingClaims
    /\ \E r \in Reqs : /\ InProvisioning(r)
                       /\ req[r].pc = "prov_done"
                       /\ req[r].status = 200
                       /\ req[r].id \in by_username(users, "alice")

-----------------------------------------------------------------------------
(* SpecHash: accounts without a password hash.  provision_sso_user creates
   them, the administrator stores a hash or deactivates, and callers try the
   Basic path and the local login with every password. *)

HashUpdates == {[password |-> "pw"], [is_active |-> FALSE]}

InitHash ==
    /\ now = 0
    /\ settings \in [oidc_enabled : {TRUE}, issuer_url : IssuerUrls,
                     allow_account_linking : {FALSE},
                     local_enabled : BOOLEAN]
    /\ OIDC_METADATA_CACHE = EmptyDict
    /\ STATE_CACHE = EmptyDict
    /\ issued = 0
    /\ presented = {}
    /\ req = [r \in Reqs |-> Idle]
    /\ resp = NoResponse
    /\ users = EmptyDict
    /\ next_id = 1
    /\ call = NoCall
    /\ JWKS_CACHE = EmptyDict
    /\ tokens = {}
    /\ auth = NoAuth

NextHash ==
    \/ \E u \in AuthUsernames : Provision(u, "a@x.com")
    \/ \E u \in AuthUsernames : create_user(u, "pw", "bob@x.com", FALSE)
    \/ \E i \in 1 .. MaxUsers, u \in HashUpdates : update_user(i, u)
    \/ \E u \in AuthUsernames, p \in AuthPasswords :
           login_for_access_token(u, p)
    \/ \E c \in Credentials : ResolveHybrid(c, NoToken)

SpecHash == InitHash /\ [][NextHash]_vars

(* The accounts of the username that have no password hash *)
Hashless(username) ==
    {i \in by_username(users, username) :
        users[i].hashed_password \in {NULL, ""}}

(* C21: for an account without a password hash verify_password is false for
   every plaintext, so the Basic path never resolves it (None when it is
   active) and the local login never gives it a token (401 when local
   authentication is enabled), whatever the password, until a hash is
   stored. *)
C21_FailsClosed ==
    /\ [](/\ \A p \in AuthPasswords \cup {NULL, ""}, h \in {NULL, ""} :
                ~verify_password(p, h)
          /\ (BasicGiven /\ Hashless(auth.credentials.username) # {})
                 => /\ auth.basic_user.id = 0
                    /\ (\A i \in BasicNamed : users[i].is_active)
                           => auth.basic_user = NoUser)
    /\ [][\A u \in AuthUsernames, p \in AuthPasswords :
              (Hashless(u) # {} /\ login_for_access_token(u, p))
                  => /\ tokens' = tokens
                     /\ resp'.status # 200
                     /\ settings.local_enabled => resp'.status = 401]_vars

(* C21's case: the Basic path was tried with a password on an active
   account that provisioning created without a hash, after the local login
   was refused. *)
C21_Witness ==
    /\ BasicGiven
    /\ \E i \in Hashless(auth.credentials.username) :
           users[i].is_active /\ users[i].is_sso_managed
    /\ auth.basic_user = NoUser
    /\ resp.handler = "login_for_access_token"
    /\ resp.status = 401

-----------------------------------------------------------------------------
(* SpecMeta: get_oidc_metadata as /sso/login calls it, around the expiry of
   its cache entry *)

MetaInstants ==
    {0, 1, CACHE_TTL_SECONDS - 1, CACHE_TTL_SECONDS, CACHE_TTL_SECONDS + 1}

InitMeta ==
    /\ now = 0
    /\ settings \in [oidc_enabled : {TRUE}, issuer_url : IssuerUrls,
                     allow_account_linking : {FALSE}]
    /\ OIDC_METADATA_CACHE = EmptyDict
    /\ STATE_CACHE = EmptyDict
    /\ issued = 0
    /\ presented = {}
    /\ req = [r \in Reqs |-> Idle]
    /\ resp = NoResponse
    /\ users = EmptyDict
    /\ next_id = 1
    /\ call = NoCall
    /\ JWKS_CACHE = EmptyDict
    /\ tokens = {}
    /\ auth = NoAuth

NextMeta ==
    \/ Tick(MetaInstants)
    \/ \E r \in Reqs : sso_login(r)
    \/ \E r \in Reqs, d \in DiscoveryResponses : login_fetched(r, d)

SpecMeta == InitMeta /\ [][NextMeta]_vars

(* The entry of the configured issuer, when there is one *)
HasEntry == settings.issuer_url \in DOMAIN OIDC_METADATA_CACHE
Entry == OIDC_METADATA_CACHE[settings.issuer_url]

(* Request r begins a discovery fetch, is answered from the cache, ends its
   fetch with a document that is stored, ends its fetch with an error *)
FetchBegins(r) == req[r].pc = "idle" /\ req'[r].pc = "login_fetch"
CacheHit(r) ==
    /\ req[r].pc = "idle" /\ req'[r].pc = "idle"
    /\ resp' # resp /\ resp'.req = r /\ resp'.status = 307
FetchStored(r) ==
    req[r].pc = "login_fetch" /\ req'[r].pc = "idle" /\ resp'.status = 307
FetchFailed(r) ==
    req[r].pc = "login_fetch" /\ req'[r].pc = "idle" /\ resp'.status # 307

(* C22: a successful fetch started at time t stores the entry with
   expires_at = t + 3600; a call strictly before the entry's expires_at is
   answered from the cache with no fetch and no cache write, and a call at
   or after it performs a fetch. *)
C22_ValidityWindow ==
    [][\A r \in Reqs :
          /\ FetchStored(r)
                 => OIDC_METADATA_CACHE' =
                        DictSet(OIDC_METADATA_CACHE, settings.issuer_url,
                                [data |-> Endpoints,
                                 expires_at |-> req[r].ct + 3600])
          /\ FetchBegins(r)
                 => /\ HasEntry => now >= Entry.expires_at
                    /\ req'[r].ct = now
                    /\ OIDC_METADATA_CACHE' = OIDC_METADATA_CACHE
          /\ CacheHit(r)
                 => /\ HasEntry /\ now < Entry.expires_at
                    /\ OIDC_METADATA_CACHE' = OIDC_METADATA_CACHE]_vars

(* C22's case: an entry was stored, and a call made at exactly its
   expires_at is fetching. *)
C22_Witness ==
    /\ HasEntry
    /\ \E r \in Reqs : req[r].pc = "login_fetch" /\ req[r].ct = Entry.expires_at

(* C23: a fetch that fails (network failure, HTTP error status, unparsable
   body, a document missing one of the three endpoints) raises and leaves
   OIDC_METADATA_CACHE exactly as it was: no incomplete document is ever
   cached and a previous entry, even expired, is neither removed nor
   overwritten. *)
C23_FailureKeepsCache ==
    /\ [](\A u \in DOMAIN OIDC_METADATA_CACHE :
              Endpoints \subseteq OIDC_METADATA_CACHE[u].data)
    /\ [][\A r \in Reqs :
              FetchFailed(r)
                  => /\ OIDC_METADATA_CACHE' = OIDC_METADATA_CACHE
                     /\ resp'.status \in {500, 503}]_vars

(* C23's case: a fetch failed on a processing error while the cache held an
   expired entry, which is still there. *)
C23_Witness ==
    /\ resp.handler = "sso_login"
    /\ resp.status = 500
    /\ HasEntry
    /\ Entry.expires_at <= now

-----------------------------------------------------------------------------
(* Claims about the errors of the provider's endpoints *)

(* A discovery answer that is no document, or a document without one of the
   three endpoints *)
MalformedDocument(d) ==
    \/ d.kind = "invalid_json"
    \/ d.kind = "document" /\ ~(Endpoints \subseteq d.keys)

(* The id_token names a key of the provider and does not verify with it for
   this issuer and this client *)
Mismatch(t) ==
    /\ t.wellformed
    /\ \E k \in ProviderKeys : k.kid = t.kid
    /\ \/ \E k \in ProviderKeys : k.kid = t.kid /\ k.key # t.signed_by
       \/ t.iss # settings.issuer_url
       \/ t.aud # client_id

(* C24: in every caller of get_oidc_metadata (sso_login, sso_callback,
   get_jwks_key) a network failure of the discovery fetch surfaces as 503 and
   a malformed or incomplete discovery response surfaces as 500. *)
C24_Distinguished ==
    [][\A r \in Serving, d \in DiscoveryResponses :
          (\/ login_fetched(r, d)
           \/ callback_fetched(r, d)
           \/ callback_jwks_meta_fetched(r, d))
              => /\ d.kind = "network_error" => resp'.status = 503
                 /\ MalformedDocument(d) => resp'.status = 500]_vars

(* C27: a malformed discovery document, a key-id missing from the JWKS and a
   signature, issuer or audience mismatch of the id_token all end the
   callback with 401. *)
C27_ProtocolErrorsUnauthorized ==
    [][\A r \in Serving :
          /\ \A d \in DiscoveryResponses :
                 (/\ MalformedDocument(d)
                  /\ \/ callback_fetched(r, d)
                     \/ callback_jwks_meta_fetched(r, d))
                     => resp'.status = 401
          /\ \A j \in JwksResponses :
                 (/\ req[r].pc = "cb_jwks"
                  /\ j.kind = "keys"
                  /\ \/ \A k \in j.keys : k.kid # req[r].id_token.kid
                     \/ Mismatch(req[r].id_token)
                  /\ callback_jwks_fetched(r, j))
                     => resp'.status = 401
          /\ \A t \in IdTokens :
                 (/\ Mismatch(t)
                  /\ callback_exchanged(r, t)
                  /\ req'[r].pc = "idle")
                     => resp'.status = 401]_vars

(* C28: a network failure of the discovery fetch, of the JWKS fetch or of
   the token exchange ends the callback with 503, and the call is not made
   again within the request. *)
C28_Unreachable ==
    [][\A r \in Serving :
          /\ \A d \in DiscoveryResponses :
                 (/\ d.kind = "network_error"
                  /\ \/ callback_fetched(r, d)
                     \/ callback_jwks_meta_fetched(r, d))
                     => resp'.status = 503 /\ req'[r] = Idle
          /\ \A j \in JwksResponses :
                 (j.kind = "network_error" /\ callback_jwks_fetched(r, j))
                     => resp'.status = 503 /\ req'[r] = Idle
          /\ callback_exchange_failed(r, "network_error")
                 => resp'.status = 503 /\ req'[r] = Idle]_vars

-----------------------------------------------------------------------------
(* SpecJwks: get_jwks_key called for a key-id, one call at a time, around
   the expiry of its cache *)

KeyIds == {"k1", "k2", "k9"}
JwksInstants == {0, 1, JWKS_TTL_SECONDS}

(* A get_jwks_key suspended in a fetch: current_time is the time its
   get_oidc_metadata read, calls the fetches it has sent *)
KeyCall(pc, kid, current_time, calls) ==
    [pc |-> pc, ct |-> current_time, kid |-> kid, calls |-> calls]

(* What get_jwks_key returned or raised at time at, the fetches it sent and
   the cache it found *)
KeyResponse(r, kid, status, detail, key, calls, pre, at) ==
    [req |-> r, handler |-> "get_jwks_key", status |-> status,
     detail |-> detail, kid |-> kid, key |-> key, calls |-> calls,
     pre |-> pre, at |-> at]

(* get_jwks_key, lines 113-121: the cache check, then get_oidc_metadata up
   to its fetch *)
get_jwks_key(r, kid) ==
    /\ req[r].pc = "idle"
    /\ IF jwks_cached(JWKS_CACHE, kid, now)
       THEN /\ resp' = KeyResponse(r, kid, 200, "", JWKS_CACHE[kid].key, {},
                                   JWKS_CACHE, now)
            /\ UNCHANGED req
       ELSE /\ req' = [req EXCEPT ![r] =
                   IF metadata_cached(OIDC_METADATA_CACHE,
                                      settings.issuer_url, now)
                   THEN KeyCall("key_fetch", kid, now, {"jwks"})
                   ELSE KeyCall("key_meta", kid, now, {"discovery"})]
            /\ UNCHANGED resp
    /\ UNCHANGED <<now, settings, OIDC_METADATA_CACHE, STATE_CACHE, issued,
                   presented, users, next_id, call, JWKS_CACHE, tokens,
                   auth>>

(* lines 119-131: the discovery fetch answers d *)
key_meta_fetched(r, d) ==
    /\ req[r].pc = "key_meta"
    /\ LET m == metadata_fetched(OIDC_METADATA_CACHE, settings.issuer_url,
                                 req[r].ct, d)
       IN  /\ OIDC_METADATA_CACHE' = m.cache
           /\ IF m.status = 200
              THEN /\ req' = [req EXCEPT ![r].pc = "key_fetch",
                                         ![r].calls = @ \cup {"jwks"}]
                   /\ UNCHANGED resp
              ELSE /\ req' = [req EXCEPT ![r] = Idle]
                   /\ resp' = KeyResponse(r, req[r].kid, 503,
                                  "Échec de la récupération de l'URI JWKS",
                                  NULL, req[r].calls, JWKS_CACHE, now)
    /\ UNCHANGED <<now, settings, STATE_CACHE, issued, presented, users,
                   next_id, call, JWKS_CACHE, tokens, auth>>

(* lines 129-163: the jwks_uri answers j *)
key_fetched(r, j) ==
    /\ req[r].pc = "key_fetch"
    /\ LET k == jwks_fetched(JWKS_CACHE, req[r].kid, now, j)
       IN  /\ JWKS_CACHE' = k.cache
           /\ resp' = KeyResponse(r, req[r].kid, k.status, k.detail, k.key,
                                  req[r].calls, JWKS_CACHE, now)
    /\ req' = [req EXCEPT ![r] = Idle]
    /\ UNCHANGED <<now, settings, OIDC_METADATA_CACHE, STATE_CACHE, issued,
                   presented, users, next_id, call, tokens, auth>>

InitJwks ==
    /\ now = 0
    /\ settings \in [oidc_enabled : {TRUE}, issuer_url : IssuerUrls,
                     allow_account_linking : {FALSE}]
    /\ OIDC_METADATA_CACHE = EmptyDict
    /\ STATE_CACHE = EmptyDict
    /\ issued = 0
    /\ presented = {}
    /\ req = [r \in Reqs |-> Idle]
    /\ resp = NoResponse
    /\ users = EmptyDict
    /\ next_id = 1
    /\ call = NoCall
    /\ JWKS_CACHE = EmptyDict
    /\ tokens = {}
    /\ auth = NoAuth

NextJwks ==
    \/ Tick(JwksInstants)
    \/ \E r \in Serving, kid \in KeyIds : get_jwks_key(r, kid)
    \/ \E r \in Serving, d \in DiscoveryResponses : key_meta_fetched(r, d)
    \/ \E r \in Serving, j \in JwksResponses : key_fetched(r, j)

SpecJwks == InitJwks /\ [][NextJwks]_vars

-----------------------------------------------------------------------------
(* Claims about the JWKS cache *)

(* The last response is one of get_jwks_key *)
KeyAnswered == resp.handler = "get_jwks_key"

(* Key k of a fetched set is in the cache c under its own key-id, stored at
   time t *)
CachedAt(c, k, t) ==
    /\ k.kid \in DOMAIN c
    /\ c[k.kid] = [key |-> k.key, expires_at |-> t + 86400]

(* C25: a JWKS fetch caches every key of the answered set under its own
   key-id, and a get_jwks_key for a key-id whose entry is within its TTL
   returns the cached key without any network call, discovery or JWKS. *)
C25_Population ==
    [][\A r \in Serving :
          /\ \A j \in JwksResponses :
                 (j.kind = "keys" /\ key_fetched(r, j))
                     => \A k \in j.keys : CachedAt(JWKS_CACHE', k, now)
          /\ \A kid \in KeyIds :
                 (/\ kid \in DOMAIN JWKS_CACHE
                  /\ now < JWKS_CACHE[kid].expires_at
                  /\ get_jwks_key(r, kid))
                     => /\ req'[r] = Idle
                        /\ resp'.status = 200
                        /\ resp'.key = JWKS_CACHE[kid].key
                        /\ resp'.calls = {}
                        /\ JWKS_CACHE' = JWKS_CACHE
                        /\ OIDC_METADATA_CACHE' = OIDC_METADATA_CACHE]_vars

(* C25's case: a fetch made for k1 on an empty cache has cached k2 too. *)
C25_Witness ==
    /\ KeyAnswered
    /\ resp.kid = "k1"
    /\ resp.status = 200
    /\ "jwks" \in resp.calls
    /\ resp.pre = EmptyDict
    /\ "k2" \in DOMAIN JWKS_CACHE
    /\ JWKS_CACHE["k2"].key = "key2"

(* C26: a key-id that is in no valid cache entry and not in the freshly
   fetched set ends get_jwks_key with 401, a network failure of the JWKS or
   discovery fetch ends it with 503, and the keys of the fetched set are
   cached all the same. *)
C26_KeyNotFound ==
    [][\A r \in Serving :
          /\ \A j \in JwksResponses :
                 key_fetched(r, j)
                     => /\ (j.kind = "keys"
                               /\ \A k \in j.keys : k.kid # req[r].kid)
                            => /\ resp'.status = 401
                               /\ \A k \in j.keys :
                                      CachedAt(JWKS_CACHE', k, now)
                        /\ j.kind = "network_error" => resp'.status = 503
          /\ \A d \in DiscoveryResponses :
                 (d.kind = "network_error" /\ key_meta_fetched(r, d))
                     => resp'.status = 503]_vars

(* C26's case: k9 was asked for on an empty cache, the set came without it,
   and its keys are cached. *)
C26_Witness ==
    /\ KeyAnswered
    /\ resp.kid = "k9"
    /\ resp.status = 401
    /\ resp.pre = EmptyDict
    /\ "k1" \in DOMAIN JWKS_CACHE

(* C30: get_jwks_key returns a cached key only while its expires_at is
   strictly greater than now; otherwise it fetches the key set, and every
   key of the answer is stored with expires_at = now + 86400, those whose
   entry had not expired included, while the other entries stay. *)
C30_MissAndExpiry ==
    [][\A r \in Serving :
          /\ \A kid \in KeyIds :
                 get_jwks_key(r, kid)
                     => IF kid \in DOMAIN JWKS_CACHE
                              /\ JWKS_CACHE[kid].expires_at > now
                        THEN req'[r] = Idle /\ resp'.calls = {}
                        ELSE /\ req'[r].pc \in {"key_meta", "key_fetch"}
                             /\ resp' = resp
          /\ \A j \in JwksResponses :
                 (j.kind = "keys" /\ key_fetched(r, j))
                     => /\ \A k \in j.keys : CachedAt(JWKS_CACHE', k, now)
                        /\ \A kid \in DOMAIN JWKS_CACHE' :
                               \/ \E k \in j.keys : k.kid = kid
                               \/ /\ kid \in DOMAIN JWKS_CACHE
                                  /\ JWKS_CACHE'[kid] = JWKS_CACHE[kid]]_vars

(* C30's case: a fetch has moved the expiry of a key that had not expired. *)
C30_Witness ==
    /\ KeyAnswered
    /\ "jwks" \in resp.calls
    /\ "k2" \in DOMAIN resp.pre
    /\ resp.pre["k2"].expires_at > resp.at
    /\ JWKS_CACHE["k2"].expires_at = resp.at + 86400
    /\ JWKS_CACHE["k2"].expires_at > resp.pre["k2"].expires_at

-----------------------------------------------------------------------------
(* routes/users.py: POST /api/users/{user_id}/generate-token *)

(* What generate_secure_token can return *)
SecureTokens == {"tok1", "tok2"}

NotGeneratable ==
    "Les tokens ne peuvent être générés que pour les comptes de service ou gérés par SSO."
OwnAccountOnly ==
    "Accès refusé. Vous ne pouvez générer des tokens que pour votre propre compte."

(* A generate_token that makes a token for any account *)
generate_token_any_account(token, user_id, new_token) ==
    /\ token \in BearerTokens
    /\ new_token \in SecureTokens
    /\ LET current_user ==
               get_current_jwt_only_user(
                   get_current_jwt_user(users, token, now))
       IN  IF current_user.status # 200
           THEN /\ resp' = Response(0, "generate_token", current_user.status,
                                    current_user.detail)
                /\ UNCHANGED users
           ELSE IF current_user.id # user_id
                   /\ ~users[current_user.id].is_superuser
           THEN /\ resp' = Response(0, "generate_token", 403, OwnAccountOnly)
                /\ UNCHANGED users
           ELSE IF user_id \notin DOMAIN users
           THEN /\ resp' = Response(0, "generate_token", 404,
                                    "Utilisateur cible introuvable.")
                /\ UNCHANGED users
           ELSE /\ users' = [users EXCEPT ![user_id].hashed_password =
                                 get_password_hash(new_token)]
                /\ resp' = Response(0, "generate_token", 201,
                                    "Nouveau token généré avec succès.")
    /\ call' = NoCall
    /\ auth' = NoAuth
    /\ UNCHANGED <<now, settings, OIDC_METADATA_CACHE, STATE_CACHE, issued,
                   presented, req, next_id, JWKS_CACHE, tokens>>

(* generate_token, lines 123-171: the caller is resolved by
   get_current_jwt_only_user; new_token is what generate_secure_token
   returns *)
generate_token(token, user_id, new_token) ==
    /\ token \in BearerTokens
    /\ new_token \in SecureTokens
    /\ LET current_user ==
               get_current_jwt_only_user(
                   get_current_jwt_user(users, token, now))
       IN  IF current_user.status # 200
           THEN /\ resp' = Response(0, "generate_token", current_user.status,
                                    current_user.detail)
                /\ UNCHANGED users
           ELSE IF current_user.id # user_id
                   /\ ~users[current_user.id].is_superuser
           THEN /\ resp' = Response(0, "generate_token", 403, OwnAccountOnly)
                /\ UNCHANGED users
           ELSE IF user_id \notin DOMAIN users
           THEN /\ resp' = Response(0, "generate_token", 404,
                                    "Utilisateur cible introuvable.")
                /\ UNCHANGED users
           ELSE IF /\ ~users[user_id].is_service_account
                   /\ ~users[user_id].is_sso_managed
           THEN /\ resp' = Response(0, "generate_token", 400, NotGeneratable)
                /\ UNCHANGED users
           ELSE /\ users' = [users EXCEPT ![user_id].hashed_password =
                                 get_password_hash(new_token)]
                /\ resp' = Response(0, "generate_token", 201,
                                    "Nouveau token généré avec succès.")
    /\ call' = NoCall
    /\ auth' = NoAuth
    /\ UNCHANGED <<now, settings, OIDC_METADATA_CACHE, STATE_CACHE, issued,
                   presented, req, next_id, JWKS_CACHE, tokens>>

(* SpecGenerate: local accounts, service accounts and provisioned accounts;
   an administrator; tokens generated with the bearer tokens of the local
   login *)
TargetIds == 1 .. MaxUsers + 1
GenerateUpdates == {[is_superuser |-> TRUE]}

InitGenerate ==
    /\ now = 0
    /\ settings \in [oidc_enabled : {TRUE}, issuer_url : IssuerUrls,
                     allow_account_linking : {FALSE},
                     local_enabled : {TRUE}]
    /\ OIDC_METADATA_CACHE = EmptyDict
    /\ STATE_CACHE = EmptyDict
    /\ issued = 0
    /\ presented = {}
    /\ req = [r \in Reqs |-> Idle]
    /\ resp = NoResponse
    /\ users = EmptyDict
    /\ next_id = 1
    /\ call = NoCall
    /\ JWKS_CACHE = EmptyDict
    /\ tokens = {}
    /\ auth = NoAuth

NextGenerate ==
    \/ \E u \in AuthUsernames, s \in BOOLEAN :
           create_user(u, "pw", "a@x.com", s)
    \/ \E u \in AuthUsernames : Provision(u, "b@x.com")
    \/ \E i \in 1 .. MaxUsers, u \in GenerateUpdates : update_user(i, u)
    \/ \E u \in AuthUsernames : login_for_access_token(u, "pw")
    \/ \E t \in BearerTokens, i \in TargetIds, s \in SecureTokens :
           generate_token(t, i, s)

SpecGenerate == InitGenerate /\ [][NextGenerate]_vars

-----------------------------------------------------------------------------
(* Claims about token generation *)

(* The account that the bearer token t names, 0 when it names none *)
Caller(t) == get_current_jwt_user(users, t, now).id

(* The caller of t may ask for a token for account i: its own account, or
   any account when it is a superuser *)
MayTarget(t, i) ==
    /\ Caller(t) # 0
    /\ Caller(t) = i \/ users[Caller(t)].is_superuser

Generatable(i) ==
    /\ i \in DOMAIN users
    /\ users[i].is_service_account \/ users[i].is_sso_managed

(* C29: generate_token replaces the stored hash of an account only when it
   is a service account or SSO-managed, and replaces nothing else; for any
   other account it answers 400 and changes no account; a caller that is no
   superuser and names another account than its own gets 403. *)
C29_TokenGeneration ==
    [][\A t \in BearerTokens, i \in TargetIds, s \in SecureTokens :
          generate_token(t, i, s)
              => /\ users' # users
                        => /\ Generatable(i)
                           /\ MayTarget(t, i)
                           /\ resp'.status = 201
                 /\ (MayTarget(t, i) /\ Generatable(i))
                        => /\ resp'.status = 201
                           /\ users' = [users EXCEPT ![i].hashed_password =
                                            get_password_hash(s)]
                 /\ (MayTarget(t, i) /\ i \in DOMAIN users /\ ~Generatable(i))
                        => resp'.status = 400 /\ users' = users
                 /\ (Caller(t) # 0 /\ ~MayTarget(t, i))
                        => resp'.status = 403 /\ users' = users]_vars

(* C29's case: an administrator's token was generated for an SSO-managed
   account, which now holds the hash of a generated token. *)
C29_Witness ==
    /\ resp.handler = "generate_token"
    /\ resp.status = 201
    /\ \E i \in DOMAIN users :
           /\ users[i].is_sso_managed
           /\ ~users[i].is_service_account
           /\ \E s \in SecureTokens :
                  users[i].hashed_password = get_password_hash(s)
    /\ \E i \in DOMAIN users :
           users[i].is_superuser /\ ~users[i].is_sso_managed

-----------------------------------------------------------------------------
(* SpecInterleave: several get_jwks_key calls suspended at the discovery
   fetch and at the JWKS fetch at once *)

InterleaveKeyIds == {"k1", "k2"}
InterleaveInstants == {0, 1}

NextInterleave ==
    \/ Tick(InterleaveInstants)
    \/ \E r \in Reqs, kid \in InterleaveKeyIds : get_jwks_key(r, kid)
    \/ \E r \in Reqs, d \in DiscoveryResponses : key_meta_fetched(r, d)
    \/ \E r \in Reqs, j \in JwksResponses : key_fetched(r, j)

SpecInterleave == InitJwks /\ [][NextInterleave]_vars

-----------------------------------------------------------------------------
(* Claims about interleaved cache writers *)

(* Request r stores the document it fetched; request r ends its JWKS
   fetch *)
StoresDocument(r) == req[r].pc = "key_meta" /\ req'[r].pc = "key_fetch"
EndsKeyFetch(r) == req[r].pc = "key_fetch" /\ req'[r].pc = "idle"

(* C31: with several requests suspended at the fetches of get_oidc_metadata
   and get_jwks_key, every cache entry is complete (document or key with its
   expires_at) and after every step is either the entry that was there or
   one fully written by the request that ended its fetch; a request that
   misses fetches, whoever else is fetching, and the entry of the request
   that writes last replaces what was there. *)
C31_NoTornEntries ==
    /\ [](/\ \A u \in DOMAIN OIDC_METADATA_CACHE :
                /\ DOMAIN OIDC_METADATA_CACHE[u] = {"data", "expires_at"}
                /\ Endpoints \subseteq OIDC_METADATA_CACHE[u].data
                /\ OIDC_METADATA_CACHE[u].expires_at > 0
          /\ \A kid \in DOMAIN JWKS_CACHE :
                /\ DOMAIN JWKS_CACHE[kid] = {"key", "expires_at"}
                /\ \E k \in ProviderKeys :
                       k.kid = kid /\ k.key = JWKS_CACHE[kid].key
                /\ JWKS_CACHE[kid].expires_at > 0)
    /\ [][/\ \A u \in DOMAIN OIDC_METADATA_CACHE' :
                \/ /\ u \in DOMAIN OIDC_METADATA_CACHE
                   /\ OIDC_METADATA_CACHE'[u] = OIDC_METADATA_CACHE[u]
                \/ \E r \in Reqs :
                       /\ StoresDocument(r)
                       /\ OIDC_METADATA_CACHE'[u] =
                              [data |-> Endpoints,
                               expires_at |-> req[r].ct + 3600]
          /\ \A kid \in DOMAIN JWKS_CACHE' :
                \/ /\ kid \in DOMAIN JWKS_CACHE
                   /\ JWKS_CACHE'[kid] = JWKS_CACHE[kid]
                \/ \E r \in Reqs, k \in ProviderKeys :
                       /\ EndsKeyFetch(r)
                       /\ k.kid = kid
                       /\ JWKS_CACHE'[kid] =
                              [key |-> k.key, expires_at |-> now + 86400]
          /\ \A r \in Reqs :
                /\ StoresDocument(r)
                       => OIDC_METADATA_CACHE'[settings.issuer_url] =
                              [data |-> Endpoints,
                               expires_at |-> req[r].ct + 3600]
                /\ (EndsKeyFetch(r) /\ resp'.status = 200)
                       => JWKS_CACHE'[req[r].kid] =
                              [key |-> resp'.key,
                               expires_at |-> now + 86400]
                /\ (req[r].pc = "idle" /\ req'[r].pc = "idle"
                        /\ resp' # resp /\ resp'.req = r)
                       => /\ resp'.kid \in DOMAIN JWKS_CACHE
                          /\ JWKS_CACHE[resp'.kid].expires_at > now]_vars

(* C31's case: two requests missed on the same key-id and both fetched; the
   one that ended last found the entry of the other, still valid, and wrote
   its own over it. *)
C31_Witness ==
    /\ KeyAnswered
    /\ "jwks" \in resp.calls
    /\ resp.status = 200
    /\ resp.kid \in DOMAIN resp.pre
    /\ resp.pre[resp.kid].expires_at > resp.at
    /\ JWKS_CACHE[resp.kid].expires_at = resp.at + 86400
    /\ JWKS_CACHE[resp.kid] # resp.pre[resp.kid]

-----------------------------------------------------------------------------
(* Claims about accounts that are not active *)

(* C32: under every policy (bearer-only, superuser, hybrid) the account a
   policy returns is active in the table it was resolved against, also when
   the token presented is valid, unexpired and names an account that is not
   active. *)
C32_ActiveIdentity ==
    Resolving =>
        /\ (auth.result.status = 200 /\ auth.result.id # 0)
               => /\ auth.result.id \in DOMAIN users
                  /\ users[auth.result.id].is_active
        /\ (auth.basic_user.status = 200 /\ TokenValid
                /\ \A i \in SubNamed : ~users[i].is_active)
               => auth.result.id \notin SubNamed

(* C32's case: a token the login issued, not expired, was presented for an
   account that is not active, and the policy returned no account. *)
C32_Witness ==
    /\ JwtOnly
    /\ TokenValid
    /\ SubNamed # {}
    /\ \A i \in SubNamed : ~users[i].is_active
    /\ auth.result.status = 401

(* C36: under the hybrid policy, Basic credentials that name an account
   which is not active end the request with the account-disabled error
   whatever token comes with them; the bearer identity is the result only
   when the Basic path returned None. *)
C36_DisabledAborts ==
    Hybrid =>
        /\ (BasicGiven /\ \E i \in BasicNamed : ~users[i].is_active)
               => /\ auth.result.status # 200
                  /\ auth.result.detail = AccountDisabled
                  /\ auth.result.id = 0
        /\ auth.result.detail = AccountDisabled
               => \E i \in BasicNamed : ~users[i].is_active
        /\ (auth.result.status = 200 /\ auth.basic_user.id = 0)
               => /\ auth.basic_user = NoUser
                  /\ auth.result = auth.jwt_user
                  /\ TokenValid

(* C36's case: the credentials name an account that is not active, the
   token is valid and names an active account, and the request failed with
   the account-disabled error. *)
C36_Witness ==
    /\ BasicGiven
    /\ \E i \in BasicNamed : ~users[i].is_active
    /\ TokenValid
    /\ \E i \in SubNamed : users[i].is_active
    /\ auth.result.status # 200
    /\ auth.result.detail = AccountDisabled

-----------------------------------------------------------------------------
(* SpecUnique: provision_sso_user called on a table that begins empty;
   accounts are also created with an email that no account holds *)

NextUnique ==
    \/ \E u \in Usernames, e \in Emails :
           by_email(users, e) = {} /\ create_user(u, "pw", e, FALSE)
    \/ \E u \in Usernames, e \in Emails : Provision(u, e)

SpecUnique == InitConc /\ [][NextUnique]_vars

(* C34: from a table in which no two accounts share an email, calls of
   provision_sso_user lead only to tables in which no two accounts share an
   email, so the by-email lookup finds at most one account. *)
C34_EmailUnique ==
    [][(\E u \in Usernames, e \in Emails : Provision(u, e))
          => ((\A e \in Emails : Cardinality(by_email(users, e)) <= 1)
                 => (\A e \in Emails : Cardinality(by_email(users', e)) <= 1))
      ]_vars

-----------------------------------------------------------------------------
(* SpecSession: a browser goes through /sso/login and /sso/callback with an
   id_token that verifies, then presents the access token on the bearer
   path; the administrator creates and deactivates accounts *)

SessionDocuments == {d \in DiscoveryResponses : Endpoints \subseteq d.keys}
SessionKeys == {j \in JwksResponses : j.keys = ProviderKeys}
SessionIdTokens ==
    {t \in GoodIdTokens : t.username # NULL /\ t.email # NULL}
SessionUpdates == {[is_active |-> FALSE]}

NextSession ==
    \/ Tick(AuthInstants)
    \/ \E u \in ConcLocals : create_user(u, "pw", "a@x.com", FALSE)
    \/ \E i \in 1 .. MaxUsers, u \in SessionUpdates : update_user(i, u)
    \/ \E r \in Serving : sso_login(r)
    \/ \E r \in Serving, d \in SessionDocuments : login_fetched(r, d)
    \/ \E r \in Serving, s \in Tokens : sso_callback(r, s)
    \/ \E r \in Serving, d \in SessionDocuments : callback_fetched(r, d)
    \/ \E r \in Serving, t \in SessionIdTokens : callback_exchanged(r, t)
    \/ \E r \in Serving, d \in SessionDocuments :
           callback_jwks_meta_fetched(r, d)
    \/ \E r \in Serving, j \in SessionKeys : callback_jwks_fetched(r, j)
    \/ \E r \in Serving : lookup_username(r)
    \/ \E r \in Serving : lookup_email(r)
    \/ \E r \in Serving : save(r)
    \/ \E r \in Serving : create(r)
    \/ \E r \in Serving : callback_return(r)
    \/ \E t \in BearerTokens : ResolveJwtOnly(t)

SpecSession == InitConc /\ [][NextSession]_vars

-----------------------------------------------------------------------------
(* Claims about the session of the callback *)

(* The callback of request r returns its access token *)
CallbackSucceeds(r) ==
    /\ req[r].pc = "prov_done"
    /\ req[r].handler = "sso_callback"
    /\ req[r].status = 200
    /\ req'[r].pc = "idle"

(* C33: the access token of a successful callback has for sub the username
   of the provisioned account as it stands after provisioning, which is the
   claimed username; presented on the bearer path at any time up to its exp
   it resolves to that account's id as long as the account is active and
   keeps its username. *)
C33_TokenNamesAccount ==
    /\ [][\A r \in Serving :
              CallbackSucceeds(r)
                  => /\ req[r].id \in DOMAIN users
                     /\ users[req[r].id].username = req[r].id_token.username
                     /\ \E i \in tokens' :
                            /\ i.issued_at = now
                            /\ i.jwt.claims.sub = users[req[r].id].username
                            /\ \A t \in {now, i.jwt.claims.exp} :
                                   users[req[r].id].is_active
                                       => get_current_jwt_user(users, i.jwt, t)
                                              = Resolved(req[r].id)]_vars
    /\ [](\A i \in tokens :
              /\ i.jwt.claims.sub \in {t.username : t \in SessionIdTokens}
              /\ (JwtOnly /\ auth.token = i.jwt /\ auth.at <= i.jwt.claims.exp)
                     => \A a \in by_username(users, i.jwt.claims.sub) :
                            users[a].is_active
                                => auth.result = Resolved(a))

(* C33's case: the token of a callback that linked and renamed a local
   account by its email was presented and resolved to that account. *)
C33_Witness ==
    /\ JwtOnly
    /\ TokenValid
    /\ auth.result.status = 200
    /\ auth.result.id # 0
    /\ users[auth.result.id].is_sso_managed
    /\ users[auth.result.id].hashed_password # NULL
    /\ users[auth.result.id].username = auth.token.claims.sub
    /\ resp.handler = "sso_callback"
    /\ resp.status = 200
    /\ \E r \in Serving : req[r].pc = "idle"

-----------------------------------------------------------------------------
(* SpecFlag: update_user and provision_sso_user step by step, each
   suspended at its awaits: the row is read, changed in memory and saved
   whole *)

(* update_user, lines 96-109: the row is read and the given fields are set
   on the object *)
update_user_begin(r, user_id, user_in) ==
    /\ req[r].pc = "idle"
    /\ IF user_id \notin DOMAIN users
       THEN /\ resp' = Response(r, "update_user", 404,
                                "Utilisateur introuvable")
            /\ UNCHANGED req
       ELSE /\ req' = [req EXCEPT ![r] =
                Provisioning("update_user", "prov_save",
                    users[user_id].username, users[user_id].email, user_id,
                    [users[user_id] EXCEPT
                       !.email = IF "email" \in DOMAIN user_in
                                 THEN user_in.email ELSE @,
                       !.is_active = IF "is_active" \in DOMAIN user_in
                                     THEN user_in.is_active ELSE @,
                       !.hashed_password =
                           IF "password" \in DOMAIN user_in
                           THEN get_password_hash(user_in.password) ELSE @,
                       !.is_superuser = IF "is_superuser" \in DOMAIN user_in
                                        THEN user_in.is_superuser ELSE @],
                    FALSE)]
            /\ UNCHANGED resp
    /\ auth' = NoAuth
    /\ UNCHANGED <<now, settings, OIDC_METADATA_CACHE, STATE_CACHE, issued,
                   presented, users, next_id, call, JWKS_CACHE, tokens>>

(* update_user, lines 111-112, and provision_sso_user's return: the handler
   answers after its save *)
handler_return(r) ==
    /\ req[r].pc = "prov_done"
    /\ req[r].handler \in {"update_user", "provision_sso_user"}
    /\ resp' = Response(r, req[r].handler,
                        IF req[r].status = 0 THEN 200 ELSE req[r].status,
                        IF req[r].status = 500
                        THEN "Internal Server Error" ELSE req[r].detail)
    /\ req' = [req EXCEPT ![r] = Idle]
    /\ UNCHANGED <<now, settings, OIDC_METADATA_CACHE, STATE_CACHE, issued,
                   presented, users, next_id, call, JWKS_CACHE, tokens,
                   auth>>

NextFlag ==
    \/ \E u \in ConcLocals : create_user(u, "pw", "a@x.com", FALSE)
    \/ \E r \in Reqs, i \in 1 .. MaxUsers, u \in SessionUpdates :
           update_user_begin(r, i, u)
    \/ \E r \in Reqs, u \in ConcLocals : begin_provision(r, u, "a@x.com")
    \/ \E r \in Reqs : lookup_username(r)
    \/ \E r \in Reqs : lookup_email(r)
    \/ \E r \in Reqs : save(r)
    \/ \E r \in Reqs : create(r)
    \/ \E r \in Reqs : handler_return(r)

SpecFlag == InitConc /\ [][NextFlag]_vars

(* C35: an account that has is_sso_managed = true keeps it: no step of
   provisioning or of a user update sets it back to false. *)
C35_FlagMonotonic ==
    [][\A i \in DOMAIN users :
          users[i].is_sso_managed
              => i \in DOMAIN users' /\ users'[i].is_sso_managed]_vars

====
